---- MODULE Spec2Model ----
(***************************************************************************)
(* Drop Four (Connect Four clone): the Board game engine.                  *)
(*                                                                         *)
(* The position store (42 cells, 69 quad codes, running score, history,    *)
(* move count, side to move), the move engine (move / remove and the       *)
(* public takeHumanTurn / takeComputerTurn / takeBackMove) and the search  *)
(* (calcMaxMove / calcMinMove, calcMaxEval / calcMinEval, descendMoves /   *)
(* ascendMoves) of src/board/t_board.h, which src/board/t_board.cpp        *)
(* repeats on the global `board`.                                          *)
(***************************************************************************)
EXTENDS Integers, Sequences, FiniteSets, TLC

(***************************************************************************)
(* Program constants.                                                      *)
(***************************************************************************)
mconst_posLim == 42
MAGIC_LIMIT_COLS == 7
mconst_quadLim == 70
mconst_quadcodeLim == 30
mconst_colNil == -1
mconst_defaultDifficulty == 4
mconst_branchFactorMax == 4
mconst_worstEval == -10000
mconst_bestEval == 10000
mconst_dEvalP1 == 1
mconst_dEvalP2 == 3
mconst_dEvalP3 == 17
mconst_dEvalP4 == 2000
mconst_dEvalN1 == -1
mconst_dEvalN2 == -3
mconst_dEvalN3 == -18
mconst_dEvalN4 == -2000
mconst_evalPositiveWinMin == 1000
mconst_evalNegativeWinMin == -1000

(***************************************************************************)
(* Bounds of the exploration.                                              *)
(***************************************************************************)
\* number of driver calls explored from each starting line
MaxOps == 2
\* searches are explored for the difficulties whose depthMax is at most this
MaxDepth == 1
\* number of driver calls explored in the threaded engine
MaxTurns == 3

(***************************************************************************)
(* The quad index: for each square 0..41 the quads through it, ended by 0. *)
(* Row i+1 of the tuple is the C row i.                                    *)
(***************************************************************************)
mconst_mpPosQuads == <<
    <<1, 25, 46, 0>>,
    <<1, 2, 28, 47, 0>>,
    <<1, 2, 3, 31, 48, 0>>,
    <<1, 2, 3, 4, 34, 49, 58, 0>>,
    <<2, 3, 4, 37, 59, 0>>,
    <<3, 4, 40, 60, 0>>,
    <<4, 43, 61, 0>>,
    <<5, 25, 26, 50, 0>>,
    <<5, 6, 28, 29, 51, 46, 0>>,
    <<5, 6, 7, 31, 32, 52, 47, 58, 0>>,
    <<5, 6, 7, 8, 34, 35, 53, 48, 62, 59, 0>>,
    <<6, 7, 8, 37, 38, 49, 63, 60, 0>>,
    <<7, 8, 40, 41, 64, 61, 0>>,
    <<8, 43, 44, 65, 0>>,
    <<9, 25, 26, 27, 54, 0>>,
    <<9, 10, 28, 29, 30, 55, 50, 58, 0>>,
    <<9, 10, 11, 31, 32, 33, 56, 51, 46, 62, 59, 0>>,
    <<9, 10, 11, 12, 34, 35, 36, 57, 52, 47, 66, 63, 60, 0>>,
    <<10, 11, 12, 37, 38, 39, 53, 48, 67, 64, 61, 0>>,
    <<11, 12, 40, 41, 42, 49, 68, 65, 0>>,
    <<12, 43, 44, 45, 69, 0>>,
    <<13, 25, 26, 27, 58, 0>>,
    <<13, 14, 28, 29, 30, 54, 62, 59, 0>>,
    <<13, 14, 15, 31, 32, 33, 55, 50, 66, 63, 60, 0>>,
    <<13, 14, 15, 16, 34, 35, 36, 56, 51, 46, 67, 64, 61, 0>>,
    <<14, 15, 16, 37, 38, 39, 57, 52, 47, 68, 65, 0>>,
    <<15, 16, 40, 41, 42, 53, 48, 69, 0>>,
    <<16, 43, 44, 45, 49, 0>>,
    <<17, 26, 27, 62, 0>>,
    <<17, 18, 29, 30, 66, 63, 0>>,
    <<17, 18, 19, 32, 33, 54, 67, 64, 0>>,
    <<17, 18, 19, 20, 35, 36, 55, 50, 68, 65, 0>>,
    <<18, 19, 20, 38, 39, 56, 51, 69, 0>>,
    <<19, 20, 41, 42, 57, 52, 0>>,
    <<20, 44, 45, 53, 0>>,
    <<21, 27, 66, 0>>,
    <<21, 22, 30, 67, 0>>,
    <<21, 22, 23, 33, 68, 0>>,
    <<21, 22, 23, 24, 36, 54, 69, 0>>,
    <<22, 23, 24, 39, 55, 0>>,
    <<23, 24, 42, 56, 0>>,
    <<24, 45, 57, 0>>
    >>

\* C arrays are 0-based: element i of a table written as a tuple.  An index
\* outside the array yields the error code -1 (never read: see the
\* invariant on the quad codes).
At(table, i) == IF i >= 0 /\ i < Len(table) THEN table[i + 1] ELSE -1

\* the next (even) quadcode when a square is added; -1 is error
mconst_rgUpQuadcode == <<
     2, 10,  4, 12,  6, 14,  8, 16, -1, -1,
    12, 18, 14, 20, 16, 22, -1, -1, 20, 24,
    22, 26, -1, -1, 26, 28, -1, -1, -1, -1 >>

\* the table with the entry for code 12, max removed, naming code 4
mconst_rgDownQuadcode_slip == <<
    -1, -1,  0, -1,  2, -1,  4, -1,  6, -1,
    -1,  0, 10,  4, 12,  4, 14,  6, -1, 10,
    18, 12, 20, 14, -1, 18, 24, 20, -1, 24 >>

\* the previous (even) quadcode when a square is removed
mconst_rgDownQuadcode == <<
    -1, -1,  0, -1,  2, -1,  4, -1,  6, -1,
    -1,  0, 10,  2, 12,  4, 14,  6, -1, 10,
    18, 12, 20, 14, -1, 18, 24, 20, -1, 24 >>

\* the table with the human's third square valued as the step from one
mconst_rgUpEval_humanThird == <<
    mconst_dEvalN1, mconst_dEvalP1,
    mconst_dEvalN2 - mconst_dEvalN1, -mconst_dEvalN1,
    mconst_dEvalN3 - mconst_dEvalN1, -mconst_dEvalN2,
    mconst_dEvalN4 - mconst_dEvalN3, -mconst_dEvalN3,
    0, 0,
    -mconst_dEvalP1, mconst_dEvalP2 - mconst_dEvalP1,
    0, 0, 0, 0, 0, 0,
    -mconst_dEvalP2, mconst_dEvalP3 - mconst_dEvalP2,
    0, 0, 0, 0,
    -mconst_dEvalP3, mconst_dEvalP4 - mconst_dEvalP3,
    0, 0, 0, 0 >>

\* the table with the computer's third square valued as its fourth
mconst_rgUpEval_computerThird == <<
    mconst_dEvalN1, mconst_dEvalP1,
    mconst_dEvalN2 - mconst_dEvalN1, -mconst_dEvalN1,
    mconst_dEvalN3 - mconst_dEvalN2, -mconst_dEvalN2,
    mconst_dEvalN4 - mconst_dEvalN3, -mconst_dEvalN3,
    0, 0,
    -mconst_dEvalP1, mconst_dEvalP2 - mconst_dEvalP1,
    0, 0, 0, 0, 0, 0,
    -mconst_dEvalP2, mconst_dEvalP4 - mconst_dEvalP3,
    0, 0, 0, 0,
    -mconst_dEvalP3, mconst_dEvalP4 - mconst_dEvalP3,
    0, 0, 0, 0 >>

\* nothing is added when a line of one owner gets a piece of the other
mconst_rgUpEval_deadIsZero == <<
    mconst_dEvalN1, mconst_dEvalP1,
    mconst_dEvalN2 - mconst_dEvalN1, 0,
    mconst_dEvalN3 - mconst_dEvalN2, 0,
    mconst_dEvalN4 - mconst_dEvalN3, 0,
    0, 0,
    0, mconst_dEvalP2 - mconst_dEvalP1,
    0, 0, 0, 0, 0, 0,
    0, mconst_dEvalP3 - mconst_dEvalP2,
    0, 0, 0, 0,
    0, mconst_dEvalP4 - mconst_dEvalP3,
    0, 0, 0, 0 >>

\* the amount to add to the score in light of a change in a quad
mconst_rgUpEval == <<
    mconst_dEvalN1,
    mconst_dEvalP1,
    mconst_dEvalN2 - mconst_dEvalN1,
    -mconst_dEvalN1,
    mconst_dEvalN3 - mconst_dEvalN2,
    -mconst_dEvalN2,
    mconst_dEvalN4 - mconst_dEvalN3,
    -mconst_dEvalN3,
    0,
    0,
    -mconst_dEvalP1,
    mconst_dEvalP2 - mconst_dEvalP1,
    0,
    0,
    0,
    0,
    0,
    0,
    -mconst_dEvalP2,
    mconst_dEvalP3 - mconst_dEvalP2,
    0,
    0,
    0,
    0,
    -mconst_dEvalP3,
    mconst_dEvalP4 - mconst_dEvalP3,
    0,
    0,
    0,
    0 >>

\* C truth value of an int
Truthy(x) == x # 0
\* the C operator ! on an int
LogicalNot(x) == IF x = 0 THEN 1 ELSE 0

(***************************************************************************)
(* The position: the fields of class Board (of the global board) that      *)
(* move and remove maintain.                                               *)
(***************************************************************************)
EmptyBoard ==
    [ m_rgPosition      |-> [p \in 0..(mconst_posLim - 1) |-> 0],
      m_rgQuad          |-> [q \in 0..(mconst_quadLim - 1) |-> 0],
      m_sumStatEval     |-> 0,
      m_rgHistory       |-> [i \in 0..(mconst_posLim - 1) |-> 0],
      m_cMoves          |-> 0,
      m_fIsComputerTurn |-> 0 ]

\* the game is over on a win only
isGameOver_winOnly(b) ==
    \/ b.m_sumStatEval > mconst_evalPositiveWinMin
    \/ b.m_sumStatEval < mconst_evalNegativeWinMin

isGameOver(b) ==
    \/ b.m_sumStatEval > mconst_evalPositiveWinMin
    \/ b.m_sumStatEval < mconst_evalNegativeWinMin
    \/ b.m_cMoves = 42

isComputerWin(b) == IF b.m_sumStatEval > mconst_evalPositiveWinMin THEN 1 ELSE 0

\* the comparison the wrong way round
isHumanWin_flipped(b) == IF b.m_sumStatEval > mconst_evalNegativeWinMin THEN 1 ELSE 0

isHumanWin(b) == IF b.m_sumStatEval < mconst_evalNegativeWinMin THEN 1 ELSE 0

isComputerTurn(b) == b.m_fIsComputerTurn

\* one quad gets one more square of the side to move
updateQuad(b, iQuad) ==
    LET quadcode == b.m_rgQuad[iQuad] + b.m_fIsComputerTurn
    IN  [b EXCEPT !.m_rgQuad[iQuad] = At(mconst_rgUpQuadcode, quadcode),
                  !.m_sumStatEval = @ + At(mconst_rgUpEval, quadcode)]

\* the two statements in the other order: the score is taken back with the
\* code the quad had before it is stepped down
downdateQuad_swapped(b, iQuad) ==
    LET quadcode == b.m_rgQuad[iQuad] + b.m_fIsComputerTurn
    IN  [b EXCEPT !.m_rgQuad[iQuad] = At(mconst_rgDownQuadcode, quadcode),
                  !.m_sumStatEval = @ - At(mconst_rgUpEval, quadcode)]

\* one quad loses a square of the side to move (the turn is already flipped)
downdateQuad(b, iQuad) ==
    LET down == At(mconst_rgDownQuadcode, b.m_rgQuad[iQuad] + b.m_fIsComputerTurn)
    IN  [b EXCEPT !.m_rgQuad[iQuad] = down,
                  !.m_sumStatEval = @ - At(mconst_rgUpEval, down + b.m_fIsComputerTurn)]

\* the quads of a square: the three unrolled reads, then up to the 0 stop
RECURSIVE QuadsUpToStop(_, _)
QuadsUpToStop(row, k) ==
    IF k > Len(row) \/ row[k] = 0 THEN << >>
    ELSE << row[k] >> \o QuadsUpToStop(row, k + 1)

\* four reads are unrolled, not three
QuadsOfSquare_fourUnrolled(square) ==
    LET row == mconst_mpPosQuads[square + 1]
    IN  << row[1], row[2], row[3], row[4] >> \o QuadsUpToStop(row, 5)

QuadsOfSquare(square) ==
    LET row == mconst_mpPosQuads[square + 1]
    IN  << row[1], row[2], row[3] >> \o QuadsUpToStop(row, 4)

RECURSIVE updateQuads(_, _, _)
updateQuads(b, quads, k) ==
    IF k > Len(quads) THEN b
    ELSE updateQuads(updateQuad(b, quads[k]), quads, k + 1)

RECURSIVE downdateQuads(_, _, _)
downdateQuads(b, quads, k) ==
    IF k > Len(quads) THEN b
    ELSE downdateQuads(downdateQuad(b, quads[k]), quads, k + 1)

\* the piece goes to the bottom row whatever the column holds
LowestBlankRowBySevens_bottom(b, colMove) == 35

\* the lowest blank of a column, scanning up from the bottom row
LowestBlankRowBySevens(b, colMove) ==
    LET colBase == 35 + colMove
        P(i) == Truthy(b.m_rgPosition[colBase + i])
    IN  IF P(0) THEN (IF P(-7) THEN (IF P(-14) THEN (IF P(-21) THEN
           (IF P(-28) THEN 0 ELSE 7) ELSE 14) ELSE 21) ELSE 28) ELSE 35

\* the scan stops at the first empty square instead of the first occupied
HighestOccupiedRowBySevens_firstEmpty(b, colMove) ==
    LET P(i) == ~Truthy(b.m_rgPosition[colMove + i])
    IN  IF P(0) THEN 0 ELSE (IF P(7) THEN 7 ELSE (IF P(14) THEN 14 ELSE
           (IF P(21) THEN 21 ELSE (IF P(28) THEN 28 ELSE 35))))

\* the highest occupied square of a column, scanning down from the top row
HighestOccupiedRowBySevens(b, colMove) ==
    LET P(i) == Truthy(b.m_rgPosition[colMove + i])
    IN  IF P(0) THEN 0 ELSE (IF P(7) THEN 7 ELSE (IF P(14) THEN 14 ELSE
           (IF P(21) THEN 21 ELSE (IF P(28) THEN 28 ELSE 35))))

\* the move is recorded one history slot too far
move_historyPushed(b, colMove) ==
    LET square == LowestBlankRowBySevens(b, colMove) + colMove
        b1 == [b EXCEPT !.m_rgHistory[b.m_cMoves + 1] = colMove,
                        !.m_cMoves = @ + 1,
                        !.m_rgPosition[square] =
                            IF Truthy(b.m_fIsComputerTurn) THEN 1 ELSE -1]
        b2 == updateQuads(b1, QuadsOfSquare(square), 1)
    IN  [b2 EXCEPT !.m_fIsComputerTurn = LogicalNot(@)]

move(b, colMove) ==
    LET square == LowestBlankRowBySevens(b, colMove) + colMove
        b1 == [b EXCEPT !.m_rgHistory[b.m_cMoves] = colMove,
                        !.m_cMoves = @ + 1,
                        !.m_rgPosition[square] =
                            IF Truthy(b.m_fIsComputerTurn) THEN 1 ELSE -1]
        b2 == updateQuads(b1, QuadsOfSquare(square), 1)
    IN  [b2 EXCEPT !.m_fIsComputerTurn = LogicalNot(@)]

remove(b) ==
    LET colMove == b.m_rgHistory[b.m_cMoves - 1]
        square == HighestOccupiedRowBySevens(b, colMove) + colMove
        b1 == [b EXCEPT !.m_cMoves = @ - 1,
                        !.m_fIsComputerTurn = LogicalNot(@),
                        !.m_rgPosition[square] = 0]
    IN  downdateQuads(b1, QuadsOfSquare(square), 1)

(***************************************************************************)
(* Brute-force geometry and evaluation, from the cells alone.              *)
(***************************************************************************)
Quads == 1..(mconst_quadLim - 1)
Squares == 0..(mconst_posLim - 1)
Cols == 0..(MAGIC_LIMIT_COLS - 1)

\* the four squares from (row, col) in direction (dRow, dCol), if on the board
LineFrom(row, col, dRow, dCol) ==
    [k \in 1..4 |-> 7 * (row + (k - 1) * dRow) + (col + (k - 1) * dCol)]

OnBoard(row, col) == row \in 0..5 /\ col \in 0..6

\* every alignment of four adjacent squares: rows, columns, both diagonals
Directions == { << 0, 1 >>, << 1, 0 >>, << 1, 1 >>, << 1, -1 >> }

GeoLines ==
    { LineFrom(t[1], t[2], t[3][1], t[3][2]) :
        t \in { u \in (0..5) \X (0..6) \X Directions :
                  OnBoard(u[1] + 3 * u[3][1], u[2] + 3 * u[3][2]) } }

\* the same alignments in a fixed order: 24 in rows, 21 in columns, 12 on
\* each kind of diagonal
GeoLineSeq ==
    [i \in 1..24 |-> LineFrom((i - 1) \div 4, (i - 1) % 4, 0, 1)]
    \o [i \in 1..21 |-> LineFrom((i - 1) \div 7, (i - 1) % 7, 1, 0)]
    \o [i \in 1..12 |-> LineFrom((i - 1) \div 4, (i - 1) % 4, 1, 1)]
    \o [i \in 1..12 |-> LineFrom((i - 1) \div 4, 3 + ((i - 1) % 4), 1, -1)]

\* number of squares of a line that `owner` holds
CountIn(b, line, owner) ==
    Cardinality({ k \in 1..4 : b.m_rgPosition[line[k]] = owner })

\* value of a line held by one owner only: points for 0..4 squares
OwnerValue(owner, k) ==
    IF k = 0 THEN 0
    ELSE IF owner = 1
         THEN << mconst_dEvalP1, mconst_dEvalP2, mconst_dEvalP3, mconst_dEvalP4 >>[k]
         ELSE << mconst_dEvalN1, mconst_dEvalN2, mconst_dEvalN3, mconst_dEvalN4 >>[k]

\* 0 for an empty line or a line with both owners, else the owner's value
ValueOfCells(v1, v2, v3, v4) ==
    LET nMax == Cardinality({ k \in 1..4 : << v1, v2, v3, v4 >>[k] = 1 })
        nMin == Cardinality({ k \in 1..4 : << v1, v2, v3, v4 >>[k] = -1 })
    IN  IF nMax > 0 /\ nMin > 0 THEN 0
        ELSE OwnerValue(1, nMax) + OwnerValue(-1, nMin)

\* the same for every content of a line, cells written 0, 1, 2 for -1, 0, 1
LineValues ==
    [c \in 0..80 |->
        ValueOfCells((c % 3) - 1, ((c \div 3) % 3) - 1,
                     ((c \div 9) % 3) - 1, ((c \div 27) % 3) - 1)]

LineValue(b, line) ==
    LineValues[40 + b.m_rgPosition[line[1]] + 3 * b.m_rgPosition[line[2]]
                  + 9 * b.m_rgPosition[line[3]] + 27 * b.m_rgPosition[line[4]]]

\* sum of the line values of the lines lo..hi of GeoLineSeq
RECURSIVE SumLineValues(_, _, _)
SumLineValues(b, lo, hi) ==
    IF lo = hi THEN LineValue(b, GeoLineSeq[lo])
    ELSE LET mid == (lo + hi) \div 2
         IN  SumLineValues(b, lo, mid) + SumLineValues(b, mid + 1, hi)

BruteEval(b) == SumLineValues(b, 1, Len(GeoLineSeq))

\* some line wholly owned by `owner`
HasFour(b, owner) == \E line \in GeoLines : CountIn(b, line, owner) = 4

\* gravity: an occupied cell has every cell below it occupied
Gravity(b) ==
    \A p \in 0..(mconst_posLim - 8) :
        b.m_rgPosition[p] # 0 => b.m_rgPosition[p + 7] # 0

\* the quad codes of the code table: 0, 2, ..., 28
QuadCodes == { 2 * k : k \in 0..14 }

CodesValid(b) == \A q \in Quads : b.m_rgQuad[q] \in QuadCodes

\* the flaws a search looks for in the positions it passes through: none yet
NoFlaws == [ score |-> FALSE, gravity |-> FALSE, codes |-> FALSE ]

\* the flaws f, and those of position b
MoreFlaws(f, b) ==
    [ score   |-> f.score \/ b.m_sumStatEval # BruteEval(b),
      gravity |-> f.gravity \/ ~Gravity(b),
      codes   |-> f.codes \/ ~CodesValid(b) ]

(***************************************************************************)
(* The search.  Every operator works on the position by make/undo, as the  *)
(* code does, and hands the position on: s.b is the position, s.seen       *)
(* collects the flaws of the positions the search passes through.  The     *)
(* position a search starts from is the state's own.                       *)
(***************************************************************************)
Made(s, b2) == [b |-> b2, seen |-> MoreFlaws(s.seen, b2)]
Moved(s, colMove) == Made(s, move(s.b, colMove))

\* what the flaws of a position are read from
Observed(b) == << b.m_rgPosition, b.m_rgQuad, b.m_sumStatEval >>

\* remove() in the search; prior is the search before the move now undone.
\* A position that is cell for cell, code for code the one already passed
\* through has its flaws, and is not examined again.
Restored(s, b2, prior) ==
    IF Observed(b2) = Observed(prior.b) THEN [b |-> b2, seen |-> s.seen]
    ELSE Made(s, b2)

Removed(s, prior) == Restored(s, remove(s.b), prior)

\* int rgMoves[] = {3, 2, 4, 1, 5, 0, 6}, as a 0-based array
rgMovesInit == [i \in 0..6 |-> << 3, 2, 4, 1, 5, 0, 6 >>[i + 1]]

\* first loop of descendMoves / ascendMoves: full columns leave the list,
\* the others get the score of a trial move
RECURSIVE probeMoves(_, _, _, _, _)
\* after the trial move: s1 is the search with the move made
probeNext(s1, prior, moves, movesLim, statvals, i) ==
    probeMoves(Removed(s1, prior), moves, movesLim,
               [statvals EXCEPT ![moves[i]] = s1.b.m_sumStatEval], i + 1)

probeMoves(s, moves, movesLim, statvals, i) ==
    IF ~(i < movesLim) THEN [s |-> s, moves |-> moves, movesLim |-> movesLim,
                             statvals |-> statvals]
    ELSE IF Truthy(s.b.m_rgPosition[moves[i]])
         THEN probeMoves(s, [moves EXCEPT ![i] = moves[movesLim - 1]],
                         movesLim - 1, statvals, i)
         ELSE probeNext(Moved(s, moves[i]), s, moves, movesLim, statvals, i)

\* inner loop of the sorting algorithm: index of the extreme value after i
\* (0 when none is beyond the value at i)
RECURSIVE extremeIndex(_, _, _, _, _, _, _)
\* a value equal to the extreme so far takes its place
extremeIndex_onTie(descending, moves, movesLim, statvals, j, val, index) ==
    IF ~(j < movesLim) THEN index
    ELSE IF (IF descending THEN statvals[moves[j]] >= val
                           ELSE statvals[moves[j]] <= val)
         THEN extremeIndex(descending, moves, movesLim, statvals, j + 1,
                           statvals[moves[j]], j)
         ELSE extremeIndex(descending, moves, movesLim, statvals, j + 1,
                           val, index)

extremeIndex(descending, moves, movesLim, statvals, j, val, index) ==
    IF ~(j < movesLim) THEN index
    ELSE IF (IF descending THEN statvals[moves[j]] > val
                           ELSE statvals[moves[j]] < val)
         THEN extremeIndex(descending, moves, movesLim, statvals, j + 1,
                           statvals[moves[j]], j)
         ELSE extremeIndex(descending, moves, movesLim, statvals, j + 1,
                           val, index)

\* outer loop of the sorting algorithm
RECURSIVE sortMoves(_, _, _, _, _)
\* the outer loop goes on without the swap
sortSwap_kept(descending, moves, movesLim, statvals, i, index) ==
    sortMoves(descending, moves, movesLim, statvals, i + 1)

\* "if (bigindex)": the swap of one turn of the outer loop
sortSwap(descending, moves, movesLim, statvals, i, index) ==
    IF Truthy(index)
    THEN sortMoves(descending,
                   [moves EXCEPT ![i] = moves[index], ![index] = moves[i]],
                   movesLim, statvals, i + 1)
    ELSE sortMoves(descending, moves, movesLim, statvals, i + 1)

sortMoves(descending, moves, movesLim, statvals, i) ==
    IF ~(i < movesLim - 1) THEN moves
    ELSE sortSwap(descending, moves, movesLim, statvals, i,
                  extremeIndex(descending, moves, movesLim, statvals,
                               i + 1, statvals[moves[i]], 0))

\* the list sorted, given the outcome p of the first loop
sortProbed(descending, p) ==
    [s |-> p.s, movesLim |-> p.movesLim,
     moves |-> sortMoves(descending, p.moves, p.movesLim, p.statvals, 0)]

orderMoves(descending, s, moves, movesLim) ==
    sortProbed(descending,
               probeMoves(s, moves, movesLim, [c \in 0..(movesLim - 1) |-> 0], 0))

descendMoves(s, moves, movesLim) == orderMoves(TRUE, s, moves, movesLim)

ascendMoves(s, moves, movesLim) == orderMoves(FALSE, s, moves, movesLim)

RECURSIVE calcMaxEval(_, _, _, _)
RECURSIVE calcMinEval(_, _, _, _)
RECURSIVE maxLeafLoop(_, _, _)
RECURSIVE minLeafLoop(_, _, _)
RECURSIVE maxDaughters(_, _, _, _, _, _, _)
RECURSIVE minDaughters(_, _, _, _, _, _, _)

\* the leaf keeps the score of the column it tried last
maxLeafNext_last(s1, prior, iMoves, best) ==
    maxLeafLoop(Removed(s1, prior), iMoves + 1, s1.b.m_sumStatEval)

\* leaf ply of calcMaxEval: every non-full column, columns 0..6 in order
maxLeafNext(s1, prior, iMoves, best) ==
    maxLeafLoop(Removed(s1, prior), iMoves + 1,
                IF s1.b.m_sumStatEval > best THEN s1.b.m_sumStatEval ELSE best)

maxLeafLoop(s, iMoves, best) ==
    IF ~(iMoves < 7) THEN [s |-> s, val |-> best]
    ELSE IF ~Truthy(s.b.m_rgPosition[iMoves])
         THEN maxLeafNext(Moved(s, iMoves), s, iMoves, best)
         ELSE maxLeafLoop(s, iMoves + 1, best)

minLeafNext(s1, prior, iMoves, best) ==
    minLeafLoop(Removed(s1, prior), iMoves + 1,
                IF s1.b.m_sumStatEval < best THEN s1.b.m_sumStatEval ELSE best)

minLeafLoop(s, iMoves, best) ==
    IF ~(iMoves < 7) THEN [s |-> s, val |-> best]
    ELSE IF ~Truthy(s.b.m_rgPosition[iMoves])
         THEN minLeafNext(Moved(s, iMoves), s, iMoves, best)
         ELSE minLeafLoop(s, iMoves + 1, best)

\* temp = isGameOver() ? m_sumStatEval : calcMinEval( depth, alpha, beta ),
\* s1 being the search with the daughter's move made
maxDaughterValue(s1, depth, alpha, beta) ==
    IF isGameOver(s1.b) THEN [s |-> s1, val |-> s1.b.m_sumStatEval]
    ELSE calcMinEval(s1, depth, alpha, beta)

minDaughterValue(s1, depth, alpha, beta) ==
    IF isGameOver(s1.b) THEN [s |-> s1, val |-> s1.b.m_sumStatEval]
    ELSE calcMaxEval(s1, depth, alpha, beta)

\* remove() after the evaluation e of a daughter
Undone(e, prior) == [s |-> Removed(e.s, prior), val |-> e.val]

\* the break leaves the loop with the daughter's move still on the board
maxDaughtersNext_moveLeft(e, rgMoves, movesLim, iMoves, depth, best, beta) ==
    IF best < e.val
    THEN IF e.val >= beta
         THEN [s |-> Moved(e.s, rgMoves[iMoves]), val |-> e.val]
         ELSE maxDaughters(e.s, rgMoves, movesLim, iMoves + 1, depth, e.val, beta)
    ELSE maxDaughters(e.s, rgMoves, movesLim, iMoves + 1, depth, best, beta)

\* "for every daughter" of calcMaxEval, with the alpha-beta break; e is the
\* daughter's evaluation, its move taken back
maxDaughtersNext(e, rgMoves, movesLim, iMoves, depth, best, beta) ==
    IF best < e.val
    THEN IF e.val >= beta THEN e
         ELSE maxDaughters(e.s, rgMoves, movesLim, iMoves + 1, depth, e.val, beta)
    ELSE maxDaughters(e.s, rgMoves, movesLim, iMoves + 1, depth, best, beta)

maxDaughters(s, rgMoves, movesLim, iMoves, depth, best, beta) ==
    IF ~(iMoves < movesLim) THEN [s |-> s, val |-> best]
    ELSE maxDaughtersNext(
             Undone(maxDaughterValue(Moved(s, rgMoves[iMoves]), depth, best, beta), s),
             rgMoves, movesLim, iMoves, depth, best, beta)

\* the loop is left at the first daughter that improves on best
minDaughtersNext_eager(e, rgMoves, movesLim, iMoves, depth, alpha, best) ==
    IF best > e.val THEN e
    ELSE minDaughters(e.s, rgMoves, movesLim, iMoves + 1, depth, alpha, best)

minDaughtersNext(e, rgMoves, movesLim, iMoves, depth, alpha, best) ==
    IF best > e.val
    THEN IF e.val <= alpha THEN e
         ELSE minDaughters(e.s, rgMoves, movesLim, iMoves + 1, depth, alpha, e.val)
    ELSE minDaughters(e.s, rgMoves, movesLim, iMoves + 1, depth, alpha, best)

minDaughters(s, rgMoves, movesLim, iMoves, depth, alpha, best) ==
    IF ~(iMoves < movesLim) THEN [s |-> s, val |-> best]
    ELSE minDaughtersNext(
             Undone(minDaughterValue(Moved(s, rgMoves[iMoves]), depth, alpha, best), s),
             rgMoves, movesLim, iMoves, depth, alpha, best)

\* every candidate is a daughter
branchCap_none(movesLim) == movesLim

branchCap(movesLim) ==
    IF movesLim > mconst_branchFactorMax THEN mconst_branchFactorMax ELSE movesLim

\* the daughters of the ordered list o, cut to the branching factor
maxDaughtersOf(o, depth, beta) ==
    maxDaughters(o.s, o.moves, branchCap(o.movesLim), 0, depth,
                 mconst_worstEval, beta)

minDaughtersOf(o, depth, alpha) ==
    minDaughters(o.s, o.moves, branchCap(o.movesLim), 0, depth,
                 alpha, mconst_bestEval)

calcMaxEval(s, depthArg, alpha, beta) ==
    IF ~Truthy(depthArg - 1)
    THEN maxLeafLoop(s, 0, mconst_worstEval)
    ELSE maxDaughtersOf(descendMoves(s, rgMovesInit, 7), depthArg - 1, beta)

calcMinEval(s, depthArg, alpha, beta) ==
    IF ~Truthy(depthArg - 1)
    THEN minLeafLoop(s, 0, mconst_bestEval)
    ELSE minDaughtersOf(ascendMoves(s, rgMovesInit, 7), depthArg - 1, alpha)

\* root loop of calcMaxMove: r carries best, alpha, bestmove, secondbestmove
\* and, for the properties, temps: the value temp of each turn of the loop
RECURSIVE maxRootLoop(_, _, _, _, _, _)
\* a candidate as good as the running best takes its place
maxRootNext_onTie(e, rgMoves, movesLim, iMoves, depthMax, r) ==
    IF r.best <= e.val
    THEN maxRootLoop(e.s, rgMoves, movesLim, iMoves + 1, depthMax,
                     [best |-> e.val, alpha |-> e.val,
                      secondbestmove |-> r.bestmove,
                      bestmove |-> rgMoves[iMoves],
                      temps |-> Append(r.temps, e.val)])
    ELSE maxRootLoop(e.s, rgMoves, movesLim, iMoves + 1, depthMax,
                     [r EXCEPT !.temps = Append(@, e.val)])

maxRootNext(e, rgMoves, movesLim, iMoves, depthMax, r) ==
    IF r.best < e.val
    THEN maxRootLoop(e.s, rgMoves, movesLim, iMoves + 1, depthMax,
                     [best |-> e.val, alpha |-> e.val,
                      secondbestmove |-> r.bestmove,
                      bestmove |-> rgMoves[iMoves],
                      temps |-> Append(r.temps, e.val)])
    ELSE maxRootLoop(e.s, rgMoves, movesLim, iMoves + 1, depthMax,
                     [r EXCEPT !.temps = Append(@, e.val)])

\* the root hands the worst value, not its running best, to the evaluator
maxRootLoop_openWindow(s, rgMoves, movesLim, iMoves, depthMax, r) ==
    IF ~(iMoves < movesLim) THEN [s |-> s, r |-> r]
    ELSE maxRootNext(
             Undone(maxDaughterValue(Moved(s, rgMoves[iMoves]), depthMax,
                                     mconst_worstEval, mconst_bestEval), s),
             rgMoves, movesLim, iMoves, depthMax, r)

maxRootLoop(s, rgMoves, movesLim, iMoves, depthMax, r) ==
    IF ~(iMoves < movesLim) THEN [s |-> s, r |-> r]
    ELSE maxRootNext(
             Undone(maxDaughterValue(Moved(s, rgMoves[iMoves]), depthMax,
                                     r.alpha, mconst_bestEval), s),
             rgMoves, movesLim, iMoves, depthMax, r)

\* root loop of calcMinMove: r carries best, beta, bestmove, secondbestmove
RECURSIVE minRootLoop(_, _, _, _, _, _)
minRootNext(e, rgMoves, movesLim, iMoves, depthMax, r) ==
    IF r.best > e.val
    THEN minRootLoop(e.s, rgMoves, movesLim, iMoves + 1, depthMax,
                     [best |-> e.val, beta |-> e.val,
                      secondbestmove |-> r.bestmove,
                      bestmove |-> rgMoves[iMoves],
                      temps |-> Append(r.temps, e.val)])
    ELSE minRootLoop(e.s, rgMoves, movesLim, iMoves + 1, depthMax,
                     [r EXCEPT !.temps = Append(@, e.val)])

minRootLoop(s, rgMoves, movesLim, iMoves, depthMax, r) ==
    IF ~(iMoves < movesLim) THEN [s |-> s, r |-> r]
    ELSE minRootNext(
             Undone(minDaughterValue(Moved(s, rgMoves[iMoves]), depthMax,
                                     mconst_worstEval, r.beta), s),
             rgMoves, movesLim, iMoves, depthMax, r)

\* the random pick returns the index drawn, not the candidate at that index
pickMove_index(r, rgMoves, movesLim, chancePickBest, chancePickSecondBest, draw1, draw2) ==
    IF draw1 < chancePickBest THEN r.bestmove
    ELSE IF draw1 < chancePickBest + chancePickSecondBest THEN r.secondbestmove
    ELSE draw2

\* the pick among best, second best and a random candidate.  The first draw
\* is taken in tenths (draw1 in 0..9 stands for randomchance in
\* [draw1/10, (draw1+1)/10)), the chances are tenths too; the second draw is
\* the index (int)(randomchance * movesLim) it yields.
pickMove(r, rgMoves, movesLim, chancePickBest, chancePickSecondBest, draw1, draw2) ==
    IF draw1 < chancePickBest THEN r.bestmove
    ELSE IF draw1 < chancePickBest + chancePickSecondBest THEN r.secondbestmove
    ELSE rgMoves[draw2]

\* what a root search hands to the pick: the position left behind, the
\* candidate list and the root's bookkeeping
rootResult(l, o) ==
    [s |-> l.s, r |-> l.r, rgMoves |-> o.moves, movesLim |-> o.movesLim]

\* the root loop over the ordered list o
maxRoot(o, depthMax) ==
    rootResult(maxRootLoop(o.s, o.moves, o.movesLim, 0, depthMax,
                           [best |-> mconst_worstEval - 1,
                            alpha |-> mconst_worstEval,
                            bestmove |-> o.moves[0],
                            secondbestmove |-> o.moves[0],
                            temps |-> << >>]), o)

minRoot(o, depthMax) ==
    rootResult(minRootLoop(o.s, o.moves, o.movesLim, 0, depthMax,
                           [best |-> mconst_bestEval + 1,
                            beta |-> mconst_bestEval,
                            bestmove |-> o.moves[0],
                            secondbestmove |-> o.moves[0],
                            temps |-> << >>]), o)

\* calcMaxMove / calcMinMove up to the random pick
calcMaxMove(b, depthMax) ==
    maxRoot(descendMoves([b |-> b, seen |-> NoFlaws], rgMovesInit, 7), depthMax)

calcMinMove(b, depthMax) ==
    minRoot(ascendMoves([b |-> b, seen |-> NoFlaws], rgMovesInit, 7), depthMax)

(***************************************************************************)
(* setDifficulty.  The chances are kept in tenths (0.1 * n is n).          *)
(***************************************************************************)
\* the difficulties above 4 all fall in the middle band
setDifficulty_noTopBand(difficultyArg) ==
    LET difficulty == IF difficultyArg < 0 \/ difficultyArg > 9
                      THEN mconst_defaultDifficulty ELSE difficultyArg
    IN  [m_difficulty |-> difficulty,
         m_depthMax |-> IF difficulty <= 4 THEN difficulty + 1
                        ELSE 5 + 2 * (difficulty - 4),
         m_chancePickBest |-> difficulty + 1,
         m_chancePickSecondBest |-> IF difficulty <= 4 THEN difficulty + 1
                                    ELSE 10 - (difficulty + 1)]

\* an argument out of range is clamped to the nearest difficulty
setDifficulty_clamped(difficultyArg) ==
    LET difficulty == IF difficultyArg < 0 THEN 0
                      ELSE IF difficultyArg > 9 THEN 9 ELSE difficultyArg
    IN  [m_difficulty |-> difficulty,
         m_depthMax |-> IF difficulty <= 4 THEN difficulty + 1
                        ELSE IF difficulty <= 7 THEN 5 + 2 * (difficulty - 4)
                        ELSE 11 + 3 * (difficulty - 7),
         m_chancePickBest |-> difficulty + 1,
         m_chancePickSecondBest |-> IF difficulty <= 4 THEN difficulty + 1
                                    ELSE 10 - (difficulty + 1)]

\* the second best move gets the chance of the best at every difficulty
setDifficulty_sameSecond(difficultyArg) ==
    LET difficulty == IF difficultyArg < 0 \/ difficultyArg > 9
                      THEN mconst_defaultDifficulty ELSE difficultyArg
    IN  [m_difficulty |-> difficulty,
         m_depthMax |-> IF difficulty <= 4 THEN difficulty + 1
                        ELSE IF difficulty <= 7 THEN 5 + 2 * (difficulty - 4)
                        ELSE 11 + 3 * (difficulty - 7),
         m_chancePickBest |-> difficulty + 1,
         m_chancePickSecondBest |-> difficulty + 1]

setDifficulty(difficultyArg) ==
    LET difficulty == IF difficultyArg < 0 \/ difficultyArg > 9
                      THEN mconst_defaultDifficulty ELSE difficultyArg
    IN  IF difficulty <= 4
        THEN [m_difficulty |-> difficulty,
              m_depthMax |-> difficulty + 1,
              m_chancePickBest |-> difficulty + 1,
              m_chancePickSecondBest |-> difficulty + 1]
        ELSE IF difficulty <= 7
        THEN [m_difficulty |-> difficulty,
              m_depthMax |-> 5 + 2 * (difficulty - 4),
              m_chancePickBest |-> difficulty + 1,
              m_chancePickSecondBest |-> 10 - (difficulty + 1)]
        ELSE [m_difficulty |-> difficulty,
              m_depthMax |-> 11 + 3 * (difficulty - 7),
              m_chancePickBest |-> difficulty + 1,
              m_chancePickSecondBest |-> 10 - (difficulty + 1)]

(***************************************************************************)
(* State.                                                                  *)
(***************************************************************************)
VARIABLES
    board,      \* the position: cells, quad codes, score, history, count, turn
    level,      \* m_difficulty, m_depthMax and the two chances
    op,         \* the last call of the driver
    arg,        \* its argument
    ret,        \* its return value
    old,        \* the position when it was called
    searched,   \* whether it ran calcMaxMove / calcMinMove
    seen,       \* flaws of the positions its search passed through
    woken,      \* worker condition variables it signalled (threaded engine)
    nOps,       \* number of driver calls so far
    twork,      \* threaded engine: the replica m_twork[i] of each worker
    work,       \* where each worker is, and the value it last printed
    result,     \* board.result: threads_finished and the holder of its lock
    main,       \* where the main thread is in takeComputerTurn
    found       \* what the search function applied on its own last found

threadVars == << twork, work, result, main >>

vars == << board, level, op, arg, ret, old, searched, seen, woken, nOps,
           twork, work, result, main, found >>

\* no search function has been applied on its own
NoneFound == [fn |-> "none"]

(***************************************************************************)
(* Starting lines: who moves first and the columns played, alternately,    *)
(* from the empty board.  Every line is replayed with move() for as long   *)
(* as the move is legal, so each start is a position a game reaches.       *)
(***************************************************************************)
NearlyFull ==
    << 4, 4, 2, 0, 2, 4, 1, 2, 6, 1, 1, 6, 2, 4, 5, 5, 1, 3, 4, 0,
       3, 4, 6, 6, 5, 5, 2, 3, 2, 5, 0, 0, 5, 1, 3, 6, 0, 3, 1 >>

StartLines ==
    { [first |-> 0, line |-> << >>],
      [first |-> 1, line |-> << >>],
      [first |-> 0, line |-> << 3, 3, 3, 3, 3 >>],
      [first |-> 0, line |-> << 3, 3, 4, 4, 5 >>],
      [first |-> 0, line |-> << 3, 3, 4, 4, 5, 5 >>],
      [first |-> 1, line |-> << 3, 3, 4, 4, 5, 5 >>],
      [first |-> 0, line |-> NearlyFull \o << 0 >>],
      [first |-> 0, line |-> NearlyFull \o << 3 >>] }

RECURSIVE Replay(_, _, _)
Replay(b, line, k) ==
    IF k > Len(line) \/ isGameOver(b) \/ Truthy(b.m_rgPosition[line[k]]) THEN b
    ELSE Replay(move(b, line[k]), line, k + 1)

\* setHumanFirst / setComputerFirst, then the line
StartBoard(start) ==
    Replay([EmptyBoard EXCEPT !.m_fIsComputerTurn = start.first], start.line, 1)

\* plies a root search explores below its daughters: the depth asked for,
\* or what is left of the board (a full board ends every line of play)
SearchDepth(b, depthMax) ==
    IF depthMax < mconst_posLim - 1 - b.m_cMoves THEN depthMax
    ELSE mconst_posLim - 1 - b.m_cMoves

\* boardInit: no worker has evaluated or counted anything, nobody holds
\* result.lock, the main thread is not in a search; every worker waits on
\* its condition variable with the replica given
ThreadsInit(replica) ==
    /\ twork = [i \in Cols |-> replica]
    /\ work = [i \in Cols |-> [pc |-> "asleep",
                               best |-> mconst_worstEval - 1,
                               evalMoves |-> mconst_colNil]]
    /\ result = [threads_finished |-> 0,
                 lock |-> mconst_colNil,
                 fresh |-> [i \in Cols |-> 0],
                 stale |-> [i \in Cols |-> 0]]
    /\ main = "idle"

Init ==
    /\ \E start \in StartLines : board = StartBoard(start)
    /\ ThreadsInit(EmptyBoard)
    /\ \E d \in 0..9 : level = setDifficulty(d)
    /\ SearchDepth(board, level.m_depthMax) <= MaxDepth
    /\ op = "boardInit"
    /\ arg = mconst_colNil
    /\ ret = mconst_colNil
    /\ old = board
    /\ searched = FALSE
    /\ seen = NoFlaws
    /\ woken = 0
    /\ nOps = 0
    /\ found = NoneFound

(***************************************************************************)
(* The driver's calls.                                                     *)
(***************************************************************************)
\* a call of the driver is entered: what the model keeps of it
Entered(name, a) ==
    /\ nOps < MaxOps
    /\ nOps' = nOps + 1
    /\ op' = name
    /\ arg' = a
    /\ old' = board

\* a call that is not setDifficulty leaves the difficulty settings alone
Called(name, a) ==
    /\ Entered(name, a)
    /\ UNCHANGED level
    /\ UNCHANGED threadVars

\* a call that runs no search
NoSearch ==
    /\ searched' = FALSE
    /\ seen' = NoFlaws
    /\ woken' = 0
    /\ UNCHANGED found

\* the call rejects nothing and returns the column it was given
TakeHumanTurn_clamped(colMove) ==
    /\ Called("takeHumanTurn", colMove)
    /\ LET col == IF colMove < 0 THEN 0 ELSE IF colMove > 6 THEN 6 ELSE colMove
       IN  IF isGameOver(board) \/ Truthy(board.m_rgPosition[col])
           THEN /\ ret' = mconst_colNil
                /\ UNCHANGED board
           ELSE /\ board' = move(board, col)
                /\ ret' = col
    /\ NoSearch

\* the call does not look at the top cell of the column
TakeHumanTurn_anyHeight(colMove) ==
    /\ Called("takeHumanTurn", colMove)
    /\ IF isGameOver(board) \/ colMove < 0 \/ colMove > 6
       THEN /\ ret' = mconst_colNil
            /\ UNCHANGED board
       ELSE /\ board' = move(board, colMove)
            /\ ret' = colMove
    /\ NoSearch

TakeHumanTurn(colMove) ==
    /\ Called("takeHumanTurn", colMove)
    /\ IF \/ isGameOver(board)
          \/ colMove < 0
          \/ colMove > 6
          \/ Truthy(board.m_rgPosition[colMove])
       THEN /\ ret' = mconst_colNil
            /\ UNCHANGED board
       ELSE /\ board' = move(board, colMove)
            /\ ret' = colMove
    /\ NoSearch

\* the columns the draws of a root search can pick
PickedMoves(c) ==
    { pickMove(c.r, c.rgMoves, c.movesLim, level.m_chancePickBest,
               level.m_chancePickSecondBest, draw1, draw2) :
        draw1 \in 0..9, draw2 \in 0..(c.movesLim - 1) }

\* calcMaxMove / calcMinMove, then move( colMove ).  The threaded engine's
\* t_calcMaxMove / t_calcMinMove signal the condition variable of each of
\* the MAGIC_LIMIT_COLS workers before the same root loop.
SearchAndMove ==
    /\ SearchDepth(board, level.m_depthMax) <= MaxDepth
    /\ \E c \in { IF Truthy(board.m_fIsComputerTurn)
                   THEN calcMaxMove(board, level.m_depthMax)
                   ELSE calcMinMove(board, level.m_depthMax) } :
         \E colMove \in PickedMoves(c) :
             /\ board' = move(c.s.b, colMove)
             /\ ret' = colMove
             /\ seen' = c.s.seen
    /\ searched' = TRUE
    /\ woken' = MAGIC_LIMIT_COLS
    /\ UNCHANGED found

\* the call searches whatever the position
TakeComputerTurn_always ==
    /\ Called("takeComputerTurn", mconst_colNil)
    /\ SearchAndMove

TakeComputerTurn ==
    /\ Called("takeComputerTurn", mconst_colNil)
    /\ IF isGameOver(board)
       THEN /\ ret' = mconst_colNil
            /\ UNCHANGED board
            /\ NoSearch
       ELSE SearchAndMove

TakeBackMove ==
    /\ Called("takeBackMove", mconst_colNil)
    /\ IF Truthy(board.m_cMoves)
       THEN /\ board' = remove(board)
            /\ ret' = board'.m_rgHistory[board'.m_cMoves]
       ELSE /\ ret' = mconst_colNil
            /\ UNCHANGED board
    /\ NoSearch

Next ==
    \/ \E colMove \in -1..7 : TakeHumanTurn(colMove)
    \/ TakeComputerTurn
    \/ TakeBackMove

Spec == Init /\ [][Next]_vars

TypeOK ==
    /\ board.m_cMoves \in 0..mconst_posLim
    /\ board.m_fIsComputerTurn \in {0, 1}
    /\ \A p \in Squares : board.m_rgPosition[p] \in {-1, 0, 1}
    /\ ret \in -1..6
    /\ nOps \in 0..(2 * MaxTurns + 1)


(***************************************************************************)
(* The set-up calls of the driver: setDifficulty with any argument,        *)
(* setHumanFirst, setComputerFirst, next to the human's moves.             *)
(***************************************************************************)
\* the arguments tried: the ten difficulties and values on both sides
DifficultyArgs == -2..11

\* the call as the driver makes it; the function is void
SetDifficulty(difficultyArg) ==
    /\ Entered("setDifficulty", difficultyArg)
    /\ level' = setDifficulty(difficultyArg)
    /\ ret' = mconst_colNil
    /\ UNCHANGED board
    /\ UNCHANGED threadVars
    /\ NoSearch

SetHumanFirst ==
    /\ Called("setHumanFirst", mconst_colNil)
    /\ board' = [board EXCEPT !.m_fIsComputerTurn = 0]
    /\ ret' = mconst_colNil
    /\ NoSearch

SetComputerFirst ==
    /\ Called("setComputerFirst", mconst_colNil)
    /\ board' = [board EXCEPT !.m_fIsComputerTurn = 1]
    /\ ret' = mconst_colNil
    /\ NoSearch

\* Board(): the default difficulty; then a starting line
SetupInit ==
    /\ \E start \in StartLines : board = StartBoard(start)
    /\ level = setDifficulty(mconst_defaultDifficulty)
    /\ ThreadsInit(EmptyBoard)
    /\ op = "boardInit"
    /\ arg = mconst_colNil
    /\ ret = mconst_colNil
    /\ old = board
    /\ searched = FALSE
    /\ seen = NoFlaws
    /\ woken = 0
    /\ nOps = 0
    /\ found = NoneFound

SetupNext ==
    \/ \E difficultyArg \in DifficultyArgs : SetDifficulty(difficultyArg)
    \/ SetHumanFirst
    \/ SetComputerFirst
    \/ \E colMove \in -1..7 : TakeHumanTurn(colMove)

SetupSpec == SetupInit /\ [][SetupNext]_vars


(***************************************************************************)
(* The threaded engine: the main thread and the MAGIC_LIMIT_COLS workers   *)
(* of boardInit, each with its replica m_twork[i].  A worker holds its own *)
(* data lock from the top of its loop to pthread_cond_wait or to the       *)
(* unlock, so one turn of the loop is one step, cut in two where it takes  *)
(* result.lock.  The workers read the shared board without a lock: what    *)
(* they read is the board of the moment, transient positions of the main   *)
(* thread's search included.                                               *)
(***************************************************************************)
\* t_calcMaxWork up to the printf: the replica after the evaluation and the
\* value printed.  Only the candidate equal to thread_num is evaluated,
\* with alpha = const_worstEval.
t_calcMaxWorkOf(o, thread_num, depthMax) ==
    IF \E iMoves \in 0..(o.movesLim - 1) : o.moves[iMoves] = thread_num
    THEN Undone(maxDaughterValue(Moved(o.s, thread_num), depthMax,
                                 mconst_worstEval, mconst_bestEval), o.s)
    ELSE [s |-> o.s, val |-> mconst_worstEval - 1]

t_calcMaxWork(data, thread_num, depthMax) ==
    t_calcMaxWorkOf(descendMoves([b |-> data, seen |-> NoFlaws], rgMovesInit, 7),
                    thread_num, depthMax)

\* the value the root loop of calcMaxMove gives the candidate colMove: temp
\* at the candidate's turn of the loop, alpha being what the candidates
\* before it left
rootValueAt(o, k, depthMax, colMove) ==
    maxDaughterValue(
        Moved(maxRootLoop(o.s, o.moves, k, 0, depthMax,
                          [best |-> mconst_worstEval - 1,
                           alpha |-> mconst_worstEval,
                           bestmove |-> o.moves[0],
                           secondbestmove |-> o.moves[0],
                           temps |-> << >>]).s, colMove),
        depthMax,
        maxRootLoop(o.s, o.moves, k, 0, depthMax,
                    [best |-> mconst_worstEval - 1,
                     alpha |-> mconst_worstEval,
                     bestmove |-> o.moves[0],
                     secondbestmove |-> o.moves[0],
                     temps |-> << >>]).r.alpha,
        mconst_bestEval).val

rootValueOf(o, depthMax, colMove) ==
    rootValueAt(o, CHOOSE k \in 0..(o.movesLim - 1) : o.moves[k] = colMove,
                depthMax, colMove)

calcMaxMoveValue(b, depthMax, colMove) ==
    rootValueOf(descendMoves([b |-> b, seen |-> NoFlaws], rgMovesInit, 7),
                depthMax, colMove)

\* t_main: "Update our board with the latest move(s)", diff being 1 or 2
t_mainReplay(data, diff) ==
    IF diff = 1
    THEN move(data, board.m_rgHistory[board.m_cMoves - 1])
    ELSE move(move(data, board.m_rgHistory[board.m_cMoves - 2]),
              board.m_rgHistory[board.m_cMoves - 1])

\* worker steps that do not depend on one another are taken in the order of
\* the thread numbers
MayRun(i) ==
    /\ main # "aborted"
    /\ \A j \in 0..(i - 1) : work[j].pc # "ready"

WorkerFrame ==
    UNCHANGED << board, level, op, arg, ret, old, searched, seen, woken, nOps,
                 found >>

\* while (data->m_cMoves == board.m_cMoves) pthread_cond_wait(...)
TWorkerSleep(i) ==
    /\ MayRun(i)
    /\ work[i].pc = "ready"
    /\ twork[i].m_cMoves = board.m_cMoves
    /\ work' = [work EXCEPT ![i].pc = "asleep"]
    /\ UNCHANGED << twork, result, main >>
    /\ WorkerFrame

\* assert(board.m_cMoves - data->m_cMoves == 1 || ... == 2) fails
TWorkerAbort(i) ==
    /\ MayRun(i)
    /\ work[i].pc = "ready"
    /\ board.m_cMoves - twork[i].m_cMoves \notin {0, 1, 2}
    /\ main' = "aborted"
    /\ UNCHANGED << twork, work, result >>
    /\ WorkerFrame

\* the catching up is done on the shared board
TWorkerReplay_onBoard(i) ==
    /\ MayRun(i)
    /\ work[i].pc = "ready"
    /\ board.m_cMoves - twork[i].m_cMoves \in {1, 2}
    /\ ~Truthy(board.m_fIsComputerTurn)
    /\ board' = move(board, board.m_rgHistory[board.m_cMoves - 1])
    /\ twork' = [twork EXCEPT ![i] =
                    t_mainReplay(@, board.m_cMoves - twork[i].m_cMoves)]
    /\ UNCHANGED << work, result, main >>
    /\ UNCHANGED << level, op, arg, ret, old, searched, seen, woken, nOps,
                    found >>

\* the replica catches up and it is the other's turn: nothing is evaluated
TWorkerReplay(i) ==
    /\ MayRun(i)
    /\ work[i].pc = "ready"
    /\ board.m_cMoves - twork[i].m_cMoves \in {1, 2}
    /\ ~Truthy(board.m_fIsComputerTurn)
    /\ twork' = [twork EXCEPT ![i] =
                    t_mainReplay(@, board.m_cMoves - twork[i].m_cMoves)]
    /\ UNCHANGED << work, result, main >>
    /\ WorkerFrame

\* the replica catches up, t_calcMaxWork evaluates the worker's column and
\* takes result.lock
TWorkerEval(i) ==
    /\ MayRun(i)
    /\ work[i].pc = "ready"
    /\ board.m_cMoves - twork[i].m_cMoves \in {1, 2}
    /\ Truthy(board.m_fIsComputerTurn)
    /\ result.lock = mconst_colNil
    /\ \E e \in { t_calcMaxWork(
                      t_mainReplay(twork[i], board.m_cMoves - twork[i].m_cMoves),
                      i, level.m_depthMax) } :
          /\ twork' = [twork EXCEPT ![i] = e.s.b]
          /\ work' = [work EXCEPT ![i] = [pc |-> "locked", best |-> e.val,
                                          evalMoves |-> e.s.b.m_cMoves]]
    /\ result' = [result EXCEPT !.lock = i]
    /\ UNCHANGED main
    /\ WorkerFrame

\* threads_finished++ under result.lock (and the signal when it is 7)
TWorkerCount(i) ==
    /\ main # "aborted"
    /\ work[i].pc = "locked"
    /\ result' = [result EXCEPT !.threads_finished = @ + 1,
                                !.fresh[i] = @ + 1,
                                !.lock = mconst_colNil]
    /\ work' = [work EXCEPT ![i].pc = "ready"]
    /\ UNCHANGED << twork, main >>
    /\ WorkerFrame

TWorker(i) ==
    \/ TWorkerSleep(i)
    \/ TWorkerAbort(i)
    \/ TWorkerReplay(i)
    \/ TWorkerEval(i)
    \/ TWorkerCount(i)

\* a call of the threaded engine by the driver, between two searches
TEntered(name, a) ==
    /\ main = "idle"
    /\ nOps < MaxTurns
    /\ nOps' = nOps + 1
    /\ op' = name
    /\ arg' = a
    /\ old' = board
    /\ UNCHANGED level

\* takeHumanTurn of the threaded engine: no worker is told
THumanTurn(colMove) ==
    /\ TEntered("takeHumanTurn", colMove)
    /\ IF \/ isGameOver(board)
          \/ colMove < 0
          \/ colMove > 6
          \/ Truthy(board.m_rgPosition[colMove])
       THEN /\ ret' = mconst_colNil
            /\ UNCHANGED board
       ELSE /\ board' = move(board, colMove)
            /\ ret' = colMove
    /\ NoSearch
    /\ UNCHANGED threadVars

\* takeBackMove of the threaded engine: no worker is told
TTakeBack ==
    /\ TEntered("takeBackMove", mconst_colNil)
    /\ IF Truthy(board.m_cMoves)
       THEN /\ board' = remove(board)
            /\ ret' = board'.m_rgHistory[board'.m_cMoves]
       ELSE /\ ret' = mconst_colNil
            /\ UNCHANGED board
    /\ NoSearch
    /\ UNCHANGED threadVars

\* the candidates of the root in position b, ordered
RootOrder(b) ==
    orderMoves(Truthy(b.m_fIsComputerTurn), [b |-> b, seen |-> NoFlaws],
               rgMovesInit, MAGIC_LIMIT_COLS)

\* takeComputerTurn up to the wait: t_calcMaxMove / t_calcMinMove order the
\* candidates and signal the condition variable of every worker
TBegin ==
    /\ TEntered("takeComputerTurn", mconst_colNil)
    /\ IF isGameOver(board)
       THEN /\ ret' = mconst_colNil
            /\ UNCHANGED board
            /\ NoSearch
            /\ UNCHANGED threadVars
       ELSE /\ board' = RootOrder(board).s.b
            /\ work' = [i \in Cols |->
                          IF work[i].pc = "asleep"
                          THEN [work[i] EXCEPT !.pc = "ready"] ELSE work[i]]
            /\ result' = [result EXCEPT
                            !.stale = [i \in Cols |-> result.stale[i] + result.fresh[i]],
                            !.fresh = [i \in Cols |-> 0]]
            /\ main' = "waiting"
            /\ woken' = MAGIC_LIMIT_COLS
            /\ searched' = TRUE
            /\ UNCHANGED << ret, seen, twork, found >>

MainFrame ==
    UNCHANGED << level, op, arg, ret, old, searched, seen, woken, nOps,
                 twork, work, found >>

\* the wait loop is left when threads_finished is 7; the counter is reset
TLeaveWait ==
    /\ main = "waiting"
    /\ result.lock = mconst_colNil
    /\ result.threads_finished = MAGIC_LIMIT_COLS
    /\ result' = [result EXCEPT !.threads_finished = 0,
                                !.fresh = [i \in Cols |-> 0],
                                !.stale = [i \in Cols |-> 0]]
    /\ main' = "awoken"
    /\ UNCHANGED board
    /\ MainFrame

\* root loop: move( rgMoves[ 0 ] )
TRootMake ==
    /\ main = "awoken"
    /\ board' = move(board, RootOrder(board).moves[0])
    /\ main' = "made"
    /\ UNCHANGED result
    /\ MainFrame

\* the first column the main thread's search tries below the root: the leaf
\* ply takes the columns 0..6 in order, the others order the list first
RECURSIVE firstListed(_, _, _)
firstListed(b, moves, movesLim) ==
    IF Truthy(b.m_rgPosition[moves[0]])
    THEN firstListed(b, [moves EXCEPT ![0] = moves[movesLim - 1]], movesLim - 1)
    ELSE moves[0]

firstTried(b, depthArg) ==
    IF ~Truthy(depthArg - 1)
    THEN CHOOSE c \in Cols :
            /\ ~Truthy(b.m_rgPosition[c])
            /\ \A c2 \in 0..(c - 1) : Truthy(b.m_rgPosition[c2])
    ELSE firstListed(b, rgMovesInit, MAGIC_LIMIT_COLS)

\* root loop: the first move of calcMinEval / calcMaxEval below the root
TRootTry ==
    /\ main = "made"
    /\ ~isGameOver(board)
    /\ board' = move(board, firstTried(board, level.m_depthMax))
    /\ main' = "tried"
    /\ UNCHANGED result
    /\ MainFrame

\* the rest of the root loop, the pick and move( colMove )
TReturn ==
    /\ main \in {"awoken", "made", "tried"}
    /\ \E c \in { IF Truthy(old.m_fIsComputerTurn)
                   THEN calcMaxMove(old, level.m_depthMax)
                   ELSE calcMinMove(old, level.m_depthMax) } :
         \E colMove \in PickedMoves(c) :
             /\ board' = move(c.s.b, colMove)
             /\ ret' = colMove
             /\ seen' = c.s.seen
    /\ main' = "idle"
    /\ UNCHANGED << level, op, arg, old, searched, woken, nOps, twork, work,
                    result, found >>

\* a game the human began, up to the computer's move 36
LateGame ==
    << 3, 6, 2, 5, 1, 4, 5, 5, 1, 0, 2, 5, 2, 2, 5, 2, 0, 3, 6, 0,
       4, 1, 2, 6, 6, 6, 4, 5, 4, 6, 1, 4, 0, 0, 4, 3 >>

\* the computer is to make the first move of the game (setComputerFirst
\* has set the replicas' side too); or the human has just made move 37 of
\* a game, which no worker has been told of: the replicas are at move 36
ThreadStarts ==
    { [first |-> 1, line |-> << >>, last |-> << >>],
      [first |-> 0, line |-> LateGame, last |-> << 1 >>] }

ThreadInit ==
    /\ \E start \in ThreadStarts :
          /\ board = Replay(StartBoard(start), start.last, 1)
          /\ ThreadsInit(StartBoard(start))
    /\ \E d \in 0..9 : level = setDifficulty(d)
    /\ SearchDepth(board, level.m_depthMax) <= MaxDepth + 1
    /\ op = "boardInit"
    /\ arg = mconst_colNil
    /\ ret = mconst_colNil
    /\ old = board
    /\ searched = FALSE
    /\ seen = NoFlaws
    /\ woken = 0
    /\ nOps = 0
    /\ found = NoneFound

ThreadNext ==
    \/ TTakeBack
    \/ \E colMove \in Cols : THumanTurn(colMove)
    \/ TBegin
    \/ TLeaveWait
    \/ TRootMake
    \/ TRootTry
    \/ TReturn
    \/ \E i \in Cols : TWorker(i)

ThreadSpec == ThreadInit /\ [][ThreadNext]_vars

\* the scheduler lets the main thread and every worker run
FairThreadSpec ==
    /\ ThreadSpec
    /\ WF_vars(TLeaveWait \/ TRootMake \/ TRootTry \/ TReturn)
    /\ \A i \in Cols : WF_vars(TWorker(i))

(***************************************************************************)
(* The search functions applied on their own: calcMaxMove / calcMinMove    *)
(* up to the random pick, descendMoves / ascendMoves, and calcMaxEval /    *)
(* calcMinEval, each on a position a game reaches and in the role the side *)
(* to move gives it (max when the computer is to move).  The position the  *)
(* function leaves behind becomes the board.                               *)
(***************************************************************************)
\* a game of 12 turns with no four in it
MidGame == << 3, 3, 2, 4, 4, 2, 3, 2, 2, 4, 4, 3 >>

SearchStarts ==
    StartLines \cup
    { [first |-> 0, line |-> MidGame],
      [first |-> 1, line |-> MidGame],
      [first |-> 0, line |-> LateGame],
      [first |-> 0, line |-> LateGame \o << 1 >>] }

\* the windows calcMaxEval / calcMinEval are tried with
EvalWindows ==
    { << mconst_worstEval, mconst_bestEval >>, << -2, 2 >>, << 3, 17 >> }

SearchInit ==
    /\ \E start \in SearchStarts : board = StartBoard(start)
    /\ ThreadsInit(EmptyBoard)
    /\ \E d \in 0..9 : level = setDifficulty(d)
    /\ SearchDepth(board, level.m_depthMax) <= MaxDepth + 2
    /\ op = "boardInit"
    /\ arg = mconst_colNil
    /\ ret = mconst_colNil
    /\ old = board
    /\ searched = FALSE
    /\ seen = NoFlaws
    /\ woken = 0
    /\ nOps = 0
    /\ found = NoneFound

\* a search function is entered on its own
Applied(name, a) ==
    /\ Entered(name, a)
    /\ ~isGameOver(board)
    /\ searched' = TRUE
    /\ woken' = 0
    /\ UNCHANGED level
    /\ UNCHANGED threadVars

\* calcMaxMove / calcMinMove as takeComputerTurn chooses between them
CalcMove ==
    /\ Applied(IF Truthy(board.m_fIsComputerTurn)
               THEN "calcMaxMove" ELSE "calcMinMove", mconst_colNil)
    /\ \E c \in { IF Truthy(board.m_fIsComputerTurn)
                   THEN calcMaxMove(board, level.m_depthMax)
                   ELSE calcMinMove(board, level.m_depthMax) } :
          /\ board' = c.s.b
          /\ seen' = c.s.seen
          /\ ret' = c.r.bestmove
          /\ found' = [fn |-> "root", r |-> c.r, rgMoves |-> c.rgMoves,
                       movesLim |-> c.movesLim]

\* descendMoves / ascendMoves on the list {3, 2, 4, 1, 5, 0, 6}
OrderMoves(descending) ==
    /\ Applied(IF descending THEN "descendMoves" ELSE "ascendMoves",
               mconst_colNil)
    /\ \E o \in { orderMoves(descending, [b |-> board, seen |-> NoFlaws],
                             rgMovesInit, MAGIC_LIMIT_COLS) } :
          /\ board' = o.s.b
          /\ seen' = o.s.seen
          /\ found' = [fn |-> "order", moves |-> o.moves,
                       movesLim |-> o.movesLim]
    /\ ret' = mconst_colNil

\* calcMaxEval / calcMinEval with the depth argument and the window given
CalcEval(depth, window) ==
    /\ Applied(IF Truthy(board.m_fIsComputerTurn)
               THEN "calcMaxEval" ELSE "calcMinEval", depth)
    /\ SearchDepth(board, depth) <= MaxDepth + 1
    /\ \E e \in { IF Truthy(board.m_fIsComputerTurn)
                   THEN calcMaxEval([b |-> board, seen |-> NoFlaws], depth,
                                    window[1], window[2])
                   ELSE calcMinEval([b |-> board, seen |-> NoFlaws], depth,
                                    window[1], window[2]) } :
          /\ board' = e.s.b
          /\ seen' = e.s.seen
          /\ found' = [fn |-> "eval", val |-> e.val, alpha |-> window[1],
                       beta |-> window[2]]
    /\ ret' = mconst_colNil

SearchNext ==
    \/ \E colMove \in Cols : TakeHumanTurn(colMove)
    \/ CalcMove
    \/ \E descending \in BOOLEAN : OrderMoves(descending)
    \/ \E depth \in 1..(MaxDepth + 1), window \in EvalWindows :
          CalcEval(depth, window)

SearchSpec == SearchInit /\ [][SearchNext]_vars


(***************************************************************************)
(* Moves and take-backs from the empty board: up to MaxTurns moves made by *)
(* takeHumanTurn, takeBackMove at any time.  found keeps the game: who was *)
(* first, the columns of the moves standing (line), and the column of the  *)
(* move the last takeBackMove took off (last).                             *)
(***************************************************************************)
UndoInit ==
    /\ \E first \in {0, 1} :
          /\ board = [EmptyBoard EXCEPT !.m_fIsComputerTurn = first]
          /\ found = [fn |-> "game", first |-> first, line |-> << >>,
                      made |-> 0, last |-> mconst_colNil]
    /\ ThreadsInit(EmptyBoard)
    /\ level = setDifficulty(mconst_defaultDifficulty)
    /\ op = "boardInit"
    /\ arg = mconst_colNil
    /\ ret = mconst_colNil
    /\ old = board
    /\ searched = FALSE
    /\ seen = NoFlaws
    /\ woken = 0
    /\ nOps = 0

\* takeHumanTurn, at most MaxTurns times with a move made
HumanTurnTaken(colMove) ==
    /\ nOps < 2 * MaxTurns + 1
    /\ found.made < MaxTurns
    /\ nOps' = nOps + 1
    /\ op' = "takeHumanTurn"
    /\ arg' = colMove
    /\ old' = board
    /\ IF \/ isGameOver(board)
          \/ colMove < 0
          \/ colMove > 6
          \/ Truthy(board.m_rgPosition[colMove])
       THEN /\ ret' = mconst_colNil
            /\ UNCHANGED << board, found >>
       ELSE /\ board' = move(board, colMove)
            /\ ret' = colMove
            /\ found' = [found EXCEPT !.line = Append(@, colMove),
                                      !.made = @ + 1]
    /\ searched' = FALSE
    /\ seen' = NoFlaws
    /\ woken' = 0
    /\ UNCHANGED level
    /\ UNCHANGED threadVars

\* the column returned is the one under the move taken off
MoveTakenBack_columnBelow ==
    /\ nOps < 2 * MaxTurns + 1
    /\ nOps' = nOps + 1
    /\ op' = "takeBackMove"
    /\ arg' = mconst_colNil
    /\ old' = board
    /\ IF Truthy(board.m_cMoves)
       THEN /\ board' = remove(board)
            /\ ret' = IF board'.m_cMoves > 0
                      THEN board'.m_rgHistory[board'.m_cMoves - 1]
                      ELSE mconst_colNil
            /\ found' = [found EXCEPT
                           !.line = SubSeq(@, 1, Len(@) - 1),
                           !.last = found.line[Len(found.line)]]
       ELSE /\ ret' = mconst_colNil
            /\ UNCHANGED << board, found >>
    /\ searched' = FALSE
    /\ seen' = NoFlaws
    /\ woken' = 0
    /\ UNCHANGED level
    /\ UNCHANGED threadVars

\* takeBackMove
MoveTakenBack ==
    /\ nOps < 2 * MaxTurns + 1
    /\ nOps' = nOps + 1
    /\ op' = "takeBackMove"
    /\ arg' = mconst_colNil
    /\ old' = board
    /\ IF Truthy(board.m_cMoves)
       THEN /\ board' = remove(board)
            /\ ret' = board'.m_rgHistory[board'.m_cMoves]
            /\ found' = [found EXCEPT
                           !.line = SubSeq(@, 1, Len(@) - 1),
                           !.last = found.line[Len(found.line)]]
       ELSE /\ ret' = mconst_colNil
            /\ UNCHANGED << board, found >>
    /\ searched' = FALSE
    /\ seen' = NoFlaws
    /\ woken' = 0
    /\ UNCHANGED level
    /\ UNCHANGED threadVars

UndoNext ==
    \/ \E colMove \in {2, 3, 7} : HumanTurnTaken(colMove)
    \/ MoveTakenBack

UndoSpec == UndoInit /\ [][UndoNext]_vars

(***************************************************************************)
(* The chain of calls of a search: the root, then one evaluator after the  *)
(* other, each entered after a move of its caller.  Of the position only   *)
(* the number of moves on the board is kept (the board of the call plus    *)
(* the plies moved); whether a move ends the game is open once a four is   *)
(* possible, and certain when the board is full.  found is the call        *)
(* pending: the depth argument and the plies moved so far, or how the      *)
(* chain ended: in a leaf ply, or with a move that ended the game.         *)
(***************************************************************************)
\* what isGameOver() can say after the move that makes n moves on the board
Overs(n) ==
    IF n >= mconst_posLim THEN {TRUE}
    ELSE IF n < 7 THEN {FALSE} ELSE BOOLEAN

DepthInit ==
    /\ \E start \in SearchStarts : board = StartBoard(start)
    /\ ~isGameOver(board)
    /\ ThreadsInit(EmptyBoard)
    /\ \E d \in 0..9 : level = setDifficulty(d)
    /\ op = "boardInit"
    /\ arg = mconst_colNil
    /\ ret = mconst_colNil
    /\ old = board
    /\ searched = FALSE
    /\ seen = NoFlaws
    /\ woken = 0
    /\ nOps = 0
    /\ found = NoneFound

\* the root hands the evaluator one ply less than depthMax
RootCalls_oneLess ==
    /\ found.fn = "none"
    /\ op' = IF Truthy(board.m_fIsComputerTurn)
             THEN "calcMaxMove" ELSE "calcMinMove"
    /\ arg' = mconst_colNil
    /\ \E over \in Overs(board.m_cMoves + 1) :
          found' = [fn |-> IF over THEN "value" ELSE "call",
                    depth |-> level.m_depthMax - 1, plies |-> 1]
    /\ UNCHANGED << board, level, ret, old, searched, seen, woken, nOps,
                    twork, work, result, main >>

\* calcMaxMove / calcMinMove: move( rgMoves[ iMoves ] ), then the score if
\* the game is over, else the evaluator of the other side with m_depthMax
RootCalls ==
    /\ found.fn = "none"
    /\ op' = IF Truthy(board.m_fIsComputerTurn)
             THEN "calcMaxMove" ELSE "calcMinMove"
    /\ arg' = mconst_colNil
    /\ \E over \in Overs(board.m_cMoves + 1) :
          found' = [fn |-> IF over THEN "value" ELSE "call",
                    depth |-> level.m_depthMax, plies |-> 1]
    /\ UNCHANGED << board, level, ret, old, searched, seen, woken, nOps,
                    twork, work, result, main >>

\* calcMaxEval / calcMinEval entered with the depth pending: "--depth",
\* then the leaf ply if it is 0, else a daughter's move and the score if the
\* game is over, else the evaluator of the other side with the depth left
EvalEntered ==
    /\ found.fn = "call"
    /\ op' = IF Truthy(board.m_fIsComputerTurn) = (found.plies % 2 = 0)
             THEN "calcMaxEval" ELSE "calcMinEval"
    /\ arg' = found.depth
    /\ IF ~Truthy(found.depth - 1)
       THEN found' = [found EXCEPT !.fn = "leaf"]
       ELSE \E over \in Overs(board.m_cMoves + found.plies + 1) :
               found' = [fn |-> IF over THEN "value" ELSE "call",
                         depth |-> found.depth - 1,
                         plies |-> found.plies + 1]
    /\ UNCHANGED << board, level, ret, old, searched, seen, woken, nOps,
                    twork, work, result, main >>

DepthNext ==
    \/ RootCalls
    \/ EvalEntered

\* every call that is entered runs on
FairDepthSpec == DepthInit /\ [][DepthNext]_vars /\ WF_vars(DepthNext)

(***************************************************************************)
(* A game driven as main() of dropfour-text.cpp drives it: the first mover *)
(* is set before the first move, then, while the game is not over,         *)
(* takeComputerTurn if isComputerTurn(), else takeHumanTurn(askmove())     *)
(* until it returns a column.  found keeps who was set to move first.      *)
(* takeComputerTurn returns when the 7 workers have counted, which they do *)
(* only with the board ahead of their replicas: never on the empty board.  *)
(***************************************************************************)
MainInit ==
    /\ \E start \in { s \in SearchStarts : s.first = 0 \/ s.line = << >> } :
          /\ board = StartBoard(start)
          /\ found = [fn |-> "game", first |-> start.first]
    /\ ThreadsInit(EmptyBoard)
    /\ \E d \in 0..9 : level = setDifficulty(d)
    /\ SearchDepth(board, level.m_depthMax) <= MaxDepth
    /\ op = "boardInit"
    /\ arg = mconst_colNil
    /\ ret = mconst_colNil
    /\ old = board
    /\ searched = FALSE
    /\ seen = NoFlaws
    /\ woken = 0
    /\ nOps = 0

\* the driver does not ask whose turn it is
HumanMoves_anyTurn(colMove) ==
    /\ nOps < 2 * MaxTurns + 1
    /\ ~isGameOver(board)
    /\ nOps' = nOps + 1
    /\ op' = "takeHumanTurn"
    /\ arg' = colMove
    /\ old' = board
    /\ IF \/ isGameOver(board)
          \/ colMove < 0
          \/ colMove > 6
          \/ Truthy(board.m_rgPosition[colMove])
       THEN /\ ret' = mconst_colNil
            /\ UNCHANGED board
       ELSE /\ board' = move(board, colMove)
            /\ ret' = colMove
    /\ NoSearch
    /\ UNCHANGED level
    /\ UNCHANGED threadVars

\* main: the else branch of the loop, one call of takeHumanTurn
HumanMoves(colMove) ==
    /\ nOps < 2 * MaxTurns + 1
    /\ ~isGameOver(board)
    /\ ~Truthy(board.m_fIsComputerTurn)
    /\ nOps' = nOps + 1
    /\ op' = "takeHumanTurn"
    /\ arg' = colMove
    /\ old' = board
    /\ IF \/ isGameOver(board)
          \/ colMove < 0
          \/ colMove > 6
          \/ Truthy(board.m_rgPosition[colMove])
       THEN /\ ret' = mconst_colNil
            /\ UNCHANGED board
       ELSE /\ board' = move(board, colMove)
            /\ ret' = colMove
    /\ NoSearch
    /\ UNCHANGED level
    /\ UNCHANGED threadVars

\* main: the if branch of the loop, takeComputerTurn: t_calcMaxMove and
\* move( colMove )
ComputerMoves ==
    /\ nOps < 2 * MaxTurns + 1
    /\ ~isGameOver(board)
    /\ Truthy(board.m_fIsComputerTurn)
    /\ board.m_cMoves > 0
    /\ nOps' = nOps + 1
    /\ op' = "takeComputerTurn"
    /\ arg' = mconst_colNil
    /\ old' = board
    /\ \E c \in { calcMaxMove(board, level.m_depthMax) } :
         \E colMove \in PickedMoves(c) :
             /\ board' = move(c.s.b, colMove)
             /\ ret' = colMove
             /\ seen' = c.s.seen
    /\ searched' = TRUE
    /\ woken' = MAGIC_LIMIT_COLS
    /\ UNCHANGED found
    /\ UNCHANGED level
    /\ UNCHANGED threadVars

MainNext ==
    \/ \E colMove \in {2, 3, 7} : HumanMoves(colMove)
    \/ ComputerMoves

MainSpec == MainInit /\ [][MainNext]_vars
(***************************************************************************)
(* Properties.                                                             *)
(***************************************************************************)
\* what move and remove maintain, the history left aside
Core(b) ==
    [ m_rgPosition      |-> b.m_rgPosition,
      m_rgQuad          |-> b.m_rgQuad,
      m_sumStatEval     |-> b.m_sumStatEval,
      m_cMoves          |-> b.m_cMoves,
      m_fIsComputerTurn |-> b.m_fIsComputerTurn ]

\* the legal columns: game not over, top cell of the column empty
LegalCols(b) ==
    IF isGameOver(b) THEN {} ELSE { c \in Cols : b.m_rgPosition[c] = 0 }

\* number of pieces in a column
Height(b, c) == Cardinality({ row \in 0..5 : b.m_rgPosition[7 * row + c] # 0 })

\* the lowest empty cell of a column that is not full
LowestEmpty(b, c) == 7 * (5 - Height(b, c)) + c

\* b2 is b with one more piece of the side to move of b, in the lowest
\* empty cell of column c, and nothing else different
OnePieceMore(b, b2, c) ==
    /\ b2.m_rgPosition =
         [b.m_rgPosition EXCEPT ![LowestEmpty(b, c)] =
              IF b.m_fIsComputerTurn = 1 THEN 1 ELSE -1]
    /\ b2.m_cMoves = b.m_cMoves + 1
    /\ b2.m_fIsComputerTurn = 1 - b.m_fIsComputerTurn

\* C1: in every position reached by legal moves, for every legal column c,
\* move(c) followed by remove() restores the 42 cells, the 69 quad codes,
\* the score, the side to move and the move count.
C1_MoveRemoveRestores ==
    \A c \in LegalCols(board) : Core(remove(move(board, c))) = Core(board)

\* a computer turn played a legal column, and taking that move back from the
\* position reached gives the position the turn started from
C1_Witness ==
    /\ op = "takeComputerTurn"
    /\ ret \in LegalCols(old)
    /\ Core(board) = Core(move(old, ret))
    /\ Core(remove(board)) = Core(old)
    /\ LegalCols(board) # {}

\* C2: in every reachable position, and in every position a search passes
\* through, the running score equals the sum over the 69 lines of the value
\* of the line recomputed from the cells.
C2_ScoreIsSumOfLines ==
    /\ Cardinality(GeoLines) = mconst_quadLim - 1
    /\ GeoLines = { GeoLineSeq[i] : i \in 1..Len(GeoLineSeq) }
    /\ board.m_sumStatEval = BruteEval(board)
    /\ ~seen.score

\* a search has run and the position has lines of both owners that count
C2_Witness ==
    /\ searched
    /\ board.m_cMoves >= 6
    /\ board.m_sumStatEval # 0
    /\ board.m_sumStatEval = BruteEval(board)

\* C3: a position with four adjacent cells of one owner in a line is game
\* over; isComputerWin is 1 exactly when the owner is the computer and
\* isHumanWin is 1 exactly when the owner is the human.
C3_FourEndsTheGame ==
    \A owner \in {1, -1} :
        HasFour(board, owner) =>
            /\ isGameOver(board)
            /\ isComputerWin(board) = (IF owner = 1 THEN 1 ELSE 0)
            /\ isHumanWin(board) = (IF owner = -1 THEN 1 ELSE 0)

\* the human has just completed four in a line before the board is full
C3_Witness ==
    /\ HasFour(board, -1)
    /\ ~HasFour(old, -1)
    /\ board.m_cMoves < mconst_posLim
    /\ isHumanWin(board) = 1

\* C4: takeHumanTurn(c) with c < 0 or c > 6 returns NONE and leaves cells,
\* quad codes, score, history, move count and side to move unchanged.
C4_BadColumnRejected ==
    (op = "takeHumanTurn" /\ (arg < 0 \/ arg > 6)) =>
        (ret = mconst_colNil /\ board = old)

\* takeHumanTurn(7) was called in a game that is not over
C4_Witness ==
    /\ op = "takeHumanTurn"
    /\ arg = 7
    /\ ~isGameOver(old)
    /\ ret = mconst_colNil

\* C5: every column takes exactly six pieces: while the game is not over,
\* takeHumanTurn(c) on a column with fewer than six pieces places a piece
\* and returns c; on a column whose top cell is occupied it returns NONE and
\* leaves the whole state unchanged.
C5_ColumnTakesSix ==
    (op = "takeHumanTurn" /\ arg \in Cols /\ ~isGameOver(old)) =>
        /\ Height(old, arg) < 6 <=> old.m_rgPosition[arg] = 0
        /\ Height(old, arg) < 6 =>
              /\ ret = arg
              /\ OnePieceMore(old, board, arg)
              /\ Height(board, arg) = Height(old, arg) + 1
        /\ old.m_rgPosition[arg] # 0 =>
              /\ ret = mconst_colNil
              /\ board = old

\* a seventh piece was refused on a column of six, in a game that is not over
C5_Witness ==
    /\ op = "takeHumanTurn"
    /\ arg \in Cols
    /\ ~isGameOver(old)
    /\ Height(old, arg) = 6
    /\ ret = mconst_colNil
    /\ board = old

\* C6: once the game is over, takeHumanTurn(c) for every c and
\* takeComputerTurn return NONE, run no search, signal no worker and leave
\* the position unchanged.
C6_GameOverRejects ==
    (isGameOver(old) /\ op \in {"takeHumanTurn", "takeComputerTurn"}) =>
        /\ ret = mconst_colNil
        /\ ~searched
        /\ woken = 0
        /\ board = old

\* takeComputerTurn was called on a won position with columns still open
C6_Witness ==
    /\ op = "takeComputerTurn"
    /\ isGameOver(old)
    /\ old.m_cMoves < mconst_posLim
    /\ \E c \in Cols : old.m_rgPosition[c] = 0
    /\ ret = mconst_colNil

\* C7: on a position that is not terminal, for every difficulty and every
\* outcome of the draws, takeComputerTurn returns a column 0..6 whose top
\* cell was empty, and the position differs from the one before the call
\* by exactly one piece of the side to move in the lowest empty cell of
\* that column.
C7_ComputerTurnIsLegal ==
    (op = "takeComputerTurn" /\ ~isGameOver(old)) =>
        /\ ret \in Cols
        /\ old.m_rgPosition[ret] = 0
        /\ OnePieceMore(old, board, ret)

\* at difficulty 9 the computer has moved in a position with a full column
C7_Witness ==
    /\ op = "takeComputerTurn"
    /\ ~isGameOver(old)
    /\ level.m_difficulty = 9
    /\ \E c \in Cols : old.m_rgPosition[c] # 0
    /\ ret \in Cols
    /\ board.m_cMoves = old.m_cMoves + 1

\* C8: gravity holds in every reachable position and in every position a
\* search passes through: an occupied cell has every cell below it in its
\* column occupied.
C8_GravityHolds ==
    /\ \A c \in Cols : \A row \in 0..5 :
          board.m_rgPosition[7 * row + c] # 0 =>
              \A below \in (row + 1)..5 : board.m_rgPosition[7 * below + c] # 0
    /\ ~seen.gravity

\* a search has run on a position with a column holding several pieces
C8_Witness ==
    /\ searched
    /\ \E c \in Cols : Height(old, c) >= 2 /\ Height(old, c) < 6
    /\ ~seen.gravity

\* C9: isGameOver is true exactly when the score is above 1000, or below
\* -1000, or 42 moves have been played; with 42 moves played and no four in
\* a line, isGameOver is true and isComputerWin and isHumanWin are both 0.
C9_GameOverAndDraw ==
    /\ isGameOver(board) <=>
          \/ board.m_sumStatEval > 1000
          \/ board.m_sumStatEval < -1000
          \/ board.m_cMoves = 42
    /\ (board.m_cMoves = 42 /\ ~HasFour(board, 1) /\ ~HasFour(board, -1)) =>
          /\ isGameOver(board)
          /\ isComputerWin(board) = 0
          /\ isHumanWin(board) = 0

\* the board is full and nobody has four in a line
C9_Witness ==
    /\ board.m_cMoves = 42
    /\ \A p \in Squares : board.m_rgPosition[p] # 0
    /\ ~HasFour(board, 1)
    /\ ~HasFour(board, -1)
    /\ isGameOver(board)

\* C10: the score is above 1000 only if the computer has four in a line, and
\* below -1000 only if the human has four in a line.
C10_OnlyFourCrosses ==
    /\ board.m_sumStatEval > mconst_evalPositiveWinMin => HasFour(board, 1)
    /\ board.m_sumStatEval < mconst_evalNegativeWinMin => HasFour(board, -1)

\* the computer has four in a line, next to lines of three that count
C10_Witness ==
    /\ board.m_sumStatEval > mconst_evalPositiveWinMin
    /\ HasFour(board, 1)
    /\ board.m_sumStatEval # mconst_dEvalP4

\* C11: a line holding k squares of one owner and none of the other counts
\* +w(k) for the computer and exactly -w(k) for the human, with
\* w = (1, 3, 17, 2000): the score is the sum of these over the 69 lines.
C11_SignSymmetricWeights ==
    LET w == << 1, 3, 17, 2000 >>
        nLines(owner, k) ==
            Cardinality({ i \in 1..Len(GeoLineSeq) :
                            /\ CountIn(board, GeoLineSeq[i], owner) = k
                            /\ CountIn(board, GeoLineSeq[i], -owner) = 0 })
    IN  /\ \A i \in 1..Len(GeoLineSeq) : \A k \in 1..4 :
             /\ (/\ CountIn(board, GeoLineSeq[i], 1) = k
                 /\ CountIn(board, GeoLineSeq[i], -1) = 0)
                   => LineValue(board, GeoLineSeq[i]) = w[k]
             /\ (/\ CountIn(board, GeoLineSeq[i], -1) = k
                 /\ CountIn(board, GeoLineSeq[i], 1) = 0)
                   => LineValue(board, GeoLineSeq[i]) = -w[k]
        /\ board.m_sumStatEval =
             (w[1] * (nLines(1, 1) - nLines(-1, 1)))
             + (w[2] * (nLines(1, 2) - nLines(-1, 2)))
             + (w[3] * (nLines(1, 3) - nLines(-1, 3)))
             + (w[4] * (nLines(1, 4) - nLines(-1, 4)))

\* C12: setDifficulty(d) sets depthMax to d+1 for d in 0..4, to 5+2*(d-4)
\* for d in 5..7 (7, 9, 11) and to 11+3*(d-7) for d in 8..9 (14, 17).
C12_DepthOfDifficulty ==
    (op = "setDifficulty" /\ arg \in 0..9) =>
        /\ level.m_difficulty = arg
        /\ arg \in 0..4 => level.m_depthMax = arg + 1
        /\ arg \in 5..7 => level.m_depthMax = 5 + 2 * (arg - 4)
        /\ arg \in 8..9 => level.m_depthMax = 11 + 3 * (arg - 7)
        /\ level.m_depthMax = << 1, 2, 3, 4, 5, 7, 9, 11, 14, 17 >>[arg + 1]

\* setDifficulty(9) was called after another difficulty had been set
C12_Witness ==
    /\ op = "setDifficulty"
    /\ arg = 9
    /\ nOps = 2
    /\ level.m_depthMax = 17

\* C13: setDifficulty(d) with d < 0 or d > 9 behaves exactly as
\* setDifficulty(4): difficulty, depthMax and both chances get the values of
\* difficulty 4, nothing is returned and the position is untouched.
C13_OutOfRangeIsDefault ==
    (op = "setDifficulty" /\ (arg < 0 \/ arg > 9)) =>
        /\ level = setDifficulty(4)
        /\ level = [m_difficulty |-> 4, m_depthMax |-> 5,
                    m_chancePickBest |-> 5, m_chancePickSecondBest |-> 5]
        /\ ret = mconst_colNil
        /\ board = old

\* setDifficulty was called with an argument above 9, and with one below 0,
\* when the difficulty was not 4
C13_Witness ==
    /\ op = "setDifficulty"
    /\ arg \in {-2, 11}
    /\ nOps = 2
    /\ level.m_difficulty = 4

\* C14: in tenths, setDifficulty(d) sets chancePickBest = d+1 for d in 0..9,
\* chancePickSecondBest = d+1 for d in 0..4 and 10-(d+1) for d in 5..9; of
\* the ten tenths of the first draw, 10 - best - secondBest lead the root to
\* the second draw, which picks each legal root move at exactly one index.
C14_ChancesOfDifficulty ==
    /\ (op = "setDifficulty" /\ arg \in 0..9) =>
          /\ level.m_chancePickBest = arg + 1
          /\ arg \in 0..4 => level.m_chancePickSecondBest = arg + 1
          /\ arg \in 5..9 => level.m_chancePickSecondBest = 10 - (arg + 1)
    /\ ~isGameOver(board) =>
          LET o == orderMoves(Truthy(board.m_fIsComputerTurn),
                              [b |-> board, seen |-> NoFlaws], rgMovesInit,
                              MAGIC_LIMIT_COLS)
              r == [best |-> 0, alpha |-> 0, bestmove |-> o.moves[0],
                    secondbestmove |-> o.moves[0]]
              picked(draw1, draw2) ==
                  pickMove(r, o.moves, o.movesLim, level.m_chancePickBest,
                           level.m_chancePickSecondBest, draw1, draw2)
              random == { draw1 \in 0..9 :
                            ~(draw1 < level.m_chancePickBest
                                        + level.m_chancePickSecondBest) }
          IN  /\ Cardinality(random) = 10 - level.m_chancePickBest
                                          - level.m_chancePickSecondBest
              /\ \A draw1 \in random : \A draw2 \in 0..(o.movesLim - 1) :
                    picked(draw1, draw2) = o.moves[draw2]
              /\ \A draw1 \in (0..9) \ random : \A draw2 \in 0..(o.movesLim - 1) :
                    picked(draw1, draw2) = o.moves[0]
              /\ \A c \in LegalCols(board) :
                    Cardinality({ draw2 \in 0..(o.movesLim - 1) :
                                    o.moves[draw2] = c }) = 1
              /\ o.movesLim = Cardinality(LegalCols(board))

\* setDifficulty(6) was called on a position with a full column: four
\* tenths for the second best, nothing left for the random pick
C14_Witness ==
    /\ op = "setDifficulty"
    /\ arg = 6
    /\ level.m_chancePickBest = 7
    /\ level.m_chancePickSecondBest = 3
    /\ ~isGameOver(board)
    /\ Cardinality(LegalCols(board)) < MAGIC_LIMIT_COLS

\* C15: move(c) on a legal column writes the owner value of the side to move
\* into the lowest empty cell of column c and into no other cell, changes
\* only the quad codes of the lines through that cell, records c at history
\* index (old move count), adds one to the move count and flips the side to
\* move; difficulty, depthMax and the chances are unchanged.
C15_MoveFrame ==
    [][ (op' = "takeHumanTurn" /\ ret' # mconst_colNil) =>
          LET cell == LowestEmpty(board, ret')
          IN  /\ ret' \in LegalCols(board)
              /\ board'.m_rgPosition =
                    [board.m_rgPosition EXCEPT ![cell] =
                        IF board.m_fIsComputerTurn = 1 THEN 1 ELSE -1]
              /\ \A q \in 0..(mconst_quadLim - 1) :
                    board'.m_rgQuad[q] # board.m_rgQuad[q] =>
                        \E k \in 1..Len(QuadsOfSquare(cell)) :
                            QuadsOfSquare(cell)[k] = q
              /\ Len(QuadsOfSquare(cell)) =
                    Cardinality({ line \in GeoLines :
                                    \E k \in 1..4 : line[k] = cell })
              /\ board'.m_rgHistory =
                    [board.m_rgHistory EXCEPT ![board.m_cMoves] = ret']
              /\ board'.m_cMoves = board.m_cMoves + 1
              /\ board'.m_fIsComputerTurn = 1 - board.m_fIsComputerTurn
              /\ level' = level
      ]_vars

\* a move landed on top of a piece after the difficulty had been changed
C15_Witness ==
    /\ op = "takeHumanTurn"
    /\ ret \in Cols
    /\ Height(old, ret) > 0
    /\ board.m_cMoves = old.m_cMoves + 1
    /\ board.m_rgHistory[old.m_cMoves] = ret
    /\ level # setDifficulty(mconst_defaultDifficulty)

\* C16: whenever t_calcMaxMove or t_calcMinMove leaves its wait loop, each
\* of the 7 workers has completed its evaluation of the current position
\* since the main thread's signal, and none of the 7 completions counted
\* was made before that signal.
C16_WaitLeftOnFullRound ==
    [][ (main = "waiting" /\ main' = "awoken") =>
          \A i \in Cols :
              /\ result.fresh[i] = 1
              /\ result.stale[i] = 0
              /\ work[i].evalMoves = board.m_cMoves
              /\ Core(twork[i]) = Core(board)
      ]_vars

\* C17: under fair scheduling of the main thread and the 7 workers, every
\* takeComputerTurn that starts a search leaves the wait loop and returns.
\* The main thread waiting on result.cond is woken only by a worker, so in
\* every state in which it waits, either the counter is 7 or a worker is
\* running (about to test its replica, or holding result.lock); in a state
\* where neither holds every thread is blocked and the call never returns,
\* however the threads are scheduled.
C17_WaitingCanEnd ==
    main = "waiting" =>
        \/ result.threads_finished = MAGIC_LIMIT_COLS
        \/ \E i \in Cols : work[i].pc \in {"ready", "locked"}

\* C18: with the computer to move, the value worker c printed for column c
\* after evaluating the position of the board is the value the sequential
\* root loop of calcMaxMove gives column c in that position.
C18_WorkerValueIsRootValue ==
    (/\ main \in {"idle", "waiting", "awoken"}
     /\ Truthy(board.m_fIsComputerTurn)
     /\ ~isGameOver(board)) =>
        \A c \in LegalCols(board) :
            (/\ work[c].pc # "locked"
             /\ work[c].evalMoves = board.m_cMoves
             /\ Core(twork[c]) = Core(board)) =>
                work[c].best = calcMaxMoveValue(board, level.m_depthMax, c)

\* C19: worker i writes only its own replica m_twork[i]: a step that writes
\* a replica writes one replica, that of a worker that is running, and
\* leaves the board alone; the board is written only by steps of the main
\* thread, which write no replica; threads_finished goes up by one, in a
\* step of the worker that holds result.lock, or is reset by the main
\* thread leaving its wait loop.
C19_WorkerWritesOwnReplica ==
    [][ /\ board' # board =>
              /\ nOps' # nOps \/ main' # main
              /\ twork' = twork
        /\ \A i \in Cols : twork'[i] # twork[i] =>
              /\ work[i].pc = "ready"
              /\ \A j \in Cols \ {i} : twork'[j] = twork[j]
              /\ board' = board
              /\ level' = level
              /\ main' = main
              /\ nOps' = nOps
        /\ result'.threads_finished # result.threads_finished =>
              \/ /\ main = "waiting"
                 /\ main' = "awoken"
                 /\ result'.threads_finished = 0
              \/ /\ result'.threads_finished = result.threads_finished + 1
                 /\ result.lock \in Cols
                 /\ work[result.lock].pc = "locked"
                 /\ result'.fresh[result.lock] = result.fresh[result.lock] + 1
                 /\ result'.lock = mconst_colNil
                 /\ twork' = twork
                 /\ board' = board
      ]_vars

\* three workers have evaluated and counted, a fourth holds result.lock,
\* the others still have the replica of the turn before
C19_Witness ==
    /\ main = "waiting"
    /\ result.threads_finished = 3
    /\ result.lock = 3
    /\ work[3].pc = "locked"
    /\ twork[3].m_cMoves = board.m_cMoves
    /\ twork[6].m_cMoves = board.m_cMoves - 1
    /\ work[6].pc = "ready"

\* C21: when calcMaxMove or calcMinMove returns, the cells, the quad codes,
\* the score, the move count and the side to move are those of the call:
\* every move() of the search, the ordering probes and the daughters left
\* by a cutoff included, has been taken back by a remove().
C21_SearchLeavesPosition ==
    op \in {"calcMaxMove", "calcMinMove"} => Core(board) = Core(old)

\* a search of three plies below the root has returned; the history beyond
\* the move count keeps the columns it tried at its deepest ply
C21_Witness ==
    /\ op = "calcMinMove"
    /\ level.m_depthMax = 3
    /\ board.m_cMoves = 12
    /\ old.m_rgHistory[board.m_cMoves + 3] # board.m_rgHistory[board.m_cMoves + 3]


\* the columns whose top cell is empty
OpenCols(b) == { c \in Cols : ~Truthy(b.m_rgPosition[c]) }

\* the score after one trial move in column c
TrialScore(b, c) == move(b, c).m_sumStatEval

\* the first movesLim entries of a list of moves
Entries(moves, movesLim) == { moves[i] : i \in 0..(movesLim - 1) }

\* C22: descendMoves (ascendMoves) leaves in the list exactly the columns
\* whose top cell is empty, each once, movesLim their number, in the order
\* of non-increasing (non-decreasing) score after one trial move.
C22_OrderedOpenColumns ==
    op \in {"descendMoves", "ascendMoves"} =>
        /\ Entries(found.moves, found.movesLim) = OpenCols(old)
        /\ found.movesLim = Cardinality(OpenCols(old))
        /\ \A i, j \in 0..(found.movesLim - 1) :
              i < j =>
                 IF op = "descendMoves"
                 THEN TrialScore(old, found.moves[i])
                         >= TrialScore(old, found.moves[j])
                 ELSE TrialScore(old, found.moves[i])
                         <= TrialScore(old, found.moves[j])

\* descendMoves has dropped full columns and has moved a column forward
C22_Witness ==
    /\ op = "descendMoves"
    /\ found.movesLim < MAGIC_LIMIT_COLS
    /\ found.movesLim > 2
    /\ \E i \in 0..(found.movesLim - 1) :
          /\ found.moves[i] # rgMovesInit[i]
          /\ rgMovesInit[i] \in OpenCols(old)
    /\ \E i, j \in 0..(found.movesLim - 1) :
          TrialScore(old, found.moves[i]) > TrialScore(old, found.moves[j])

\* x is a better value than y for the root that has run
Better(x, y) == IF op = "calcMaxMove" THEN x > y ELSE x < y

\* the value of the i-th candidate of the root is better than the value of
\* every candidate before it
Improves(i) ==
    \A j \in 1..(i - 1) : Better(found.r.temps[i], found.r.temps[j])

\* C23: at the root bestmove is the earliest candidate of the reordered list
\* whose value is the extreme over all candidates; a later candidate whose
\* value equals the running best replaces neither bestmove nor
\* secondbestmove, which are the last two candidates that improved on all
\* the candidates before them (the first candidate when only it did).
C23_EarliestExtremeIsBest ==
    op \in {"calcMaxMove", "calcMinMove"} =>
        \E i \in 1..found.movesLim :
           /\ found.r.bestmove = found.rgMoves[i - 1]
           /\ \A j \in 1..found.movesLim :
                 ~Better(found.r.temps[j], found.r.temps[i])
           /\ Improves(i)
           /\ \E k \in 1..i :
                 /\ found.r.secondbestmove = found.rgMoves[k - 1]
                 /\ Improves(k)
                 /\ k = i => i = 1
                 /\ \A m \in (k + 1)..(i - 1) : ~Improves(m)

\* a max root has met, after its best candidate, a candidate of the same
\* value
C23_Witness ==
    /\ op = "calcMaxMove"
    /\ \E i, j \in 1..found.movesLim :
          /\ i < j
          /\ found.r.bestmove = found.rgMoves[i - 1]
          /\ found.r.temps[j] = found.r.temps[i]

\* C24: when the root loop ends, secondbestmove is the candidate that
\* produced the second-best value among the candidates the root evaluated,
\* and it is bestmove only when there is a single legal candidate.
C24_SecondBestIsSecondValue ==
    op \in {"calcMaxMove", "calcMinMove"} =>
        /\ found.r.secondbestmove = found.r.bestmove => found.movesLim = 1
        /\ found.movesLim > 1 =>
              \E i, k \in 1..found.movesLim :
                 /\ i # k
                 /\ found.r.bestmove = found.rgMoves[i - 1]
                 /\ found.r.secondbestmove = found.rgMoves[k - 1]
                 /\ \A j \in 1..found.movesLim \ {i} :
                       ~Better(found.r.temps[j], found.r.temps[k])

\* the running best of the root before its i-th candidate: the open bound
\* before any candidate, the best of the values so far after
RunningBest(i) ==
    IF i = 1
    THEN IF op = "calcMaxMove" THEN mconst_worstEval ELSE mconst_bestEval
    ELSE CHOOSE v \in { found.r.temps[j] : j \in 1..(i - 1) } :
            \A j \in 1..(i - 1) : ~Better(found.r.temps[j], v)

\* the value of every candidate of the root that does not end the game is
\* the value of the opposite evaluator on the position after the candidate,
\* called with the depth argument given, the running best of the root as
\* the bound of the root's side and the open bound on the other side
RootCallsAt(depthArg) ==
    \A i \in 1..found.movesLim :
       ~isGameOver(move(old, found.rgMoves[i - 1])) =>
          found.r.temps[i] =
             IF op = "calcMaxMove"
             THEN calcMinEval([b |-> move(old, found.rgMoves[i - 1]),
                               seen |-> NoFlaws],
                              depthArg, RunningBest(i), mconst_bestEval).val
             ELSE calcMaxEval([b |-> move(old, found.rgMoves[i - 1]),
                               seen |-> NoFlaws],
                              depthArg, mconst_worstEval, RunningBest(i)).val

\* C25 as stated: for every non-terminal root candidate the root calls the
\* opposite role's evaluator with the depth argument depthMax - 1, the open
\* bound (+10000 for a max root, -10000 for a min root) on the side that
\* moves next and the root's running best as the other bound.  (Stated for
\* depthMax of 2 and more, where the depth argument depthMax - 1 is
\* positive.)
C25_RootCallsAtDepthMaxLessOne ==
    (op \in {"calcMaxMove", "calcMinMove"} /\ level.m_depthMax >= 2) =>
        RootCallsAt(level.m_depthMax - 1)

\* C25 amended: for every non-terminal root candidate the root calls the
\* opposite role's evaluator with the depth argument depthMax, the open
\* bound on the side that moves next and the root's running best as the
\* other bound.
C25_RootCallsAtDepthMax ==
    op \in {"calcMaxMove", "calcMinMove"} => RootCallsAt(level.m_depthMax)

\* a max root of depthMax 2 has evaluated a later candidate that does not
\* end the game, with a running best above the worst value
C25_Witness ==
    /\ op = "calcMaxMove"
    /\ level.m_depthMax = 2
    /\ \E i \in 2..found.movesLim :
          /\ ~isGameOver(move(old, found.rgMoves[i - 1]))
          /\ RunningBest(i) > mconst_worstEval

\* C26: when the decremented depth is 0, calcMaxEval (calcMinEval) returns
\* exactly the maximum (minimum) of the scores after one trial move in each
\* column that is not full, all of them, in no order and with no cap, and
\* goes no deeper (the last column tried is the highest one that is not
\* full, and no second move has been made on top of a trial move); there is
\* such a column, and the value is never the sentinel -10000 (+10000).
C26_LeafIsExtremeOfTrials ==
    (op \in {"calcMaxEval", "calcMinEval"} /\ arg = 1) =>
        /\ OpenCols(old) # {}
        /\ \E c \in OpenCols(old) : found.val = TrialScore(old, c)
        /\ \A c \in OpenCols(old) :
              IF op = "calcMaxEval" THEN TrialScore(old, c) <= found.val
                                    ELSE TrialScore(old, c) >= found.val
        /\ found.val \notin {mconst_worstEval, mconst_bestEval}
        /\ \A c \in OpenCols(old) : c <= board.m_rgHistory[old.m_cMoves]
        /\ board.m_rgHistory[old.m_cMoves] \in OpenCols(old)
        /\ old.m_cMoves + 1 < mconst_posLim =>
              board.m_rgHistory[old.m_cMoves + 1]
                 = old.m_rgHistory[old.m_cMoves + 1]

\* calcMaxEval at its leaf ply with more than four columns not full; the
\* maximum is not the score of the last column tried
C26_Witness ==
    /\ op = "calcMaxEval"
    /\ arg = 1
    /\ Cardinality(OpenCols(old)) > mconst_branchFactorMax
    /\ found.val # TrialScore(old, board.m_rgHistory[old.m_cMoves])

\* the daughters a node below the root may explore on position b: the
\* first mconst_branchFactorMax entries of its reordered list
CappedDaughters(descending, b) ==
    Entries(orderMoves(descending, [b |-> b, seen |-> NoFlaws],
                       rgMovesInit, MAGIC_LIMIT_COLS).moves,
            mconst_branchFactorMax) \cap OpenCols(b)

\* C27: a node below the root that is not a leaf explores at most 4
\* daughters, the first 4 entries of its reordered list: the daughters are
\* tried in the order of the list, and the one tried last (the history
\* keeps it at the node's move count) is one of these entries.  The root
\* explores every column that is not full: it has a value for each and the
\* one tried last is the last of its list.
C27_FourDaughtersBelowRoot ==
    /\ (op \in {"calcMaxEval", "calcMinEval"} /\ arg >= 2) =>
          board.m_rgHistory[old.m_cMoves]
             \in CappedDaughters(op = "calcMaxEval", old)
    /\ op \in {"calcMaxMove", "calcMinMove"} =>
          /\ Len(found.r.temps) = Cardinality(OpenCols(old))
          /\ Entries(found.rgMoves, found.movesLim) = OpenCols(old)
          /\ board.m_rgHistory[old.m_cMoves]
                = found.rgMoves[found.movesLim - 1]
          /\ ( /\ level.m_depthMax >= 2
               /\ ~isGameOver(move(old, found.rgMoves[found.movesLim - 1])) )
             => board.m_rgHistory[old.m_cMoves + 1]
                   \in CappedDaughters(op = "calcMinMove",
                          move(old, found.rgMoves[found.movesLim - 1]))

\* an evaluator above its leaf ply has returned on a position with more
\* than four columns not full, its fourth daughter tried last
C27_Witness ==
    /\ op = "calcMaxEval"
    /\ arg = 2
    /\ Cardinality(OpenCols(old)) > mconst_branchFactorMax
    /\ board.m_rgHistory[old.m_cMoves]
          = orderMoves(TRUE, [b |-> old, seen |-> NoFlaws], rgMovesInit,
                       MAGIC_LIMIT_COLS).moves[mconst_branchFactorMax - 1]

\* the best of a set of values for the max (min) side
Extreme(isMax, vals) ==
    CHOOSE v \in vals : \A w \in vals : IF isMax THEN w <= v ELSE w >= v

\* calcMaxEval (isMax) / calcMinEval with the two breaks taken out: the
\* leaf ply as it is, above it the value of every daughter among the first
\* mconst_branchFactorMax entries of the reordered list
RECURSIVE EvalNoCutoff(_, _, _)
\* the value of the daughter in column c
DaughterNoCutoff(isMax, b1, depth) ==
    IF isGameOver(b1) THEN b1.m_sumStatEval
    ELSE EvalNoCutoff(~isMax, b1, depth)

EvalNoCutoff(isMax, b, depthArg) ==
    IF ~Truthy(depthArg - 1)
    THEN Extreme(isMax, { TrialScore(b, c) : c \in OpenCols(b) })
    ELSE Extreme(isMax, { DaughterNoCutoff(isMax, move(b, c), depthArg - 1) :
                            c \in CappedDaughters(isMax, b) })

\* the values of the root candidates with the breaks taken out
RootNoCutoff(i) ==
    DaughterNoCutoff(op = "calcMaxMove", move(old, found.rgMoves[i - 1]),
                     level.m_depthMax)

\* C28: the best value and bestmove of calcMaxMove / calcMinMove are those
\* of the same search (same reordering, same cap of 4) without the
\* alpha-beta breaks: the best value is the extreme of the candidates'
\* values without breaks, and bestmove is the first candidate of the list
\* that has it.
C28_CutoffsChangeNoDecision ==
    op \in {"calcMaxMove", "calcMinMove"} =>
        \E i \in 1..found.movesLim :
           /\ found.r.bestmove = found.rgMoves[i - 1]
           /\ found.r.best = RootNoCutoff(i)
           /\ \A j \in 1..found.movesLim :
                 /\ ~Better(RootNoCutoff(j), RootNoCutoff(i))
                 /\ j < i => Better(RootNoCutoff(i), RootNoCutoff(j))

\* a root of depthMax 2 or more has got for a candidate a value that is
\* not its value without breaks: a break was taken
C28_Witness ==
    /\ op = "calcMaxMove"
    /\ level.m_depthMax >= 2
    /\ \E i \in 1..found.movesLim : found.r.temps[i] # RootNoCutoff(i)

\* C29: the table of next codes is never applied to a line that is full:
\* in every state reached through takeHumanTurn, takeComputerTurn and
\* takeBackMove, and in every position a search passes through with its
\* moves and undos, no quad code is the error code -1 and every quad code
\* is one of the 15 even codes 0..28.
C29_QuadCodesStayInTable ==
    /\ \A q \in Quads : board.m_rgQuad[q] # -1
    /\ CodesValid(board)
    /\ ~seen.codes

\* the computer has searched and moved on a board that has a line of four
\* squares all taken
C29_Witness ==
    /\ op = "takeComputerTurn"
    /\ searched
    /\ ret # mconst_colNil
    /\ \E q \in Quads : board.m_rgQuad[q] \in {8, 16, 22, 26, 28}

\* the quad codes of fewer than four pieces
OpenCodes == { q \in QuadCodes : At(mconst_rgUpQuadcode, q) # -1 }

\* EmptyBoard with code q planted in quad iQuad, owner bit t to move
Planted(q, t, iQuad) ==
    [EmptyBoard EXCEPT !.m_rgQuad[iQuad] = q, !.m_fIsComputerTurn = t]

\* b after updateQuad and then downdateQuad on quad iQuad has the code and
\* the score of b: the code stepped up is stepped down to what it was, and
\* the score taken off is the score that was put on
UpThenDown(b, iQuad) ==
    /\ downdateQuad(updateQuad(b, iQuad), iQuad).m_rgQuad[iQuad]
          = b.m_rgQuad[iQuad]
    /\ downdateQuad(updateQuad(b, iQuad), iQuad).m_sumStatEval
          = b.m_sumStatEval

\* C30: for every quad code q of fewer than four pieces and every owner bit
\* t, rgDownQuadcode[rgUpQuadcode[q + t] + t] = q, and the score that
\* downdateQuad subtracts for the removal is the score that updateQuad
\* added for the addition: so on a board with the code planted, and for
\* every quad of the board of the game that is not full, with either side
\* to move.
C30_DownInvertsUp ==
    /\ \A q \in OpenCodes, t \in {0, 1} :
          /\ At(mconst_rgDownQuadcode, At(mconst_rgUpQuadcode, q + t) + t) = q
          /\ \A iQuad \in Quads : UpThenDown(Planted(q, t, iQuad), iQuad)
    /\ \A iQuad \in Quads, t \in {0, 1} :
          board.m_rgQuad[iQuad] \in OpenCodes =>
             UpThenDown([board EXCEPT !.m_fIsComputerTurn = t], iQuad)

\* a move has been taken back on a board whose quads show eight of the ten
\* codes of fewer than four pieces
C30_Witness ==
    /\ op = "takeBackMove"
    /\ old.m_cMoves > 0
    /\ board.m_cMoves = old.m_cMoves - 1
    /\ Cardinality(OpenCodes \cap { board.m_rgQuad[q] : q \in Quads }) >= 8

(***************************************************************************)
(* The tables of the evaluation, the take-back, the depth of the search,   *)
(* the replicas of the workers and the alternation of the sides.           *)
(***************************************************************************)
\* the squares of max and of min that the codes 0, 2, ..., 28 stand for
mconst_quadcodeSquares ==
    << << 0, 0 >>, << 0, 1 >>, << 0, 2 >>, << 0, 3 >>, << 0, 4 >>,
       << 1, 0 >>, << 1, 1 >>, << 1, 2 >>, << 1, 3 >>, << 2, 0 >>,
       << 2, 1 >>, << 2, 2 >>, << 3, 0 >>, << 3, 1 >>, << 4, 0 >> >>

\* the single-owner value of a line with code q: 0 when it is empty or
\* holds squares of both
CodeValue(q) ==
    IF At(mconst_quadcodeSquares, q \div 2)[1] > 0
       /\ At(mconst_quadcodeSquares, q \div 2)[2] > 0
    THEN 0
    ELSE OwnerValue(1, At(mconst_quadcodeSquares, q \div 2)[1])
         + OwnerValue(-1, At(mconst_quadcodeSquares, q \div 2)[2])

\* code q is held by one owner only, and the piece of owner bit t is of
\* the other one
TurnsDead(q, t) ==
    IF t = 1 THEN q \in {2, 4, 6} ELSE q \in {10, 18, 24}

\* the score updateQuad adds on quad iQuad of b is the value of the new
\* code less the value of the old one; when the line goes from one owner
\* to both it is nothing (nothingAdded) or minus the old value
DeltaIsValueChange(b, iQuad, nothingAdded) ==
    /\ updateQuad(b, iQuad).m_sumStatEval - b.m_sumStatEval
          = CodeValue(updateQuad(b, iQuad).m_rgQuad[iQuad])
               - CodeValue(b.m_rgQuad[iQuad])
    /\ TurnsDead(b.m_rgQuad[iQuad], b.m_fIsComputerTurn) =>
          /\ CodeValue(updateQuad(b, iQuad).m_rgQuad[iQuad]) = 0
          /\ updateQuad(b, iQuad).m_sumStatEval - b.m_sumStatEval
                = IF nothingAdded THEN 0
                  ELSE 0 - CodeValue(b.m_rgQuad[iQuad])

\* the property of every transition: of every code of fewer than four
\* squares planted in a quad, and of every quad not full of the board
EveryTransition(nothingAdded) ==
    /\ \A q \in OpenCodes, t \in {0, 1} :
          DeltaIsValueChange(Planted(q, t, 1), 1, nothingAdded)
    /\ \A iQuad \in Quads, t \in {0, 1} :
          board.m_rgQuad[iQuad] \in OpenCodes =>
             DeltaIsValueChange([board EXCEPT !.m_fIsComputerTurn = t],
                                iQuad, nothingAdded)

\* C31 as stated: for every line transition the score delta is the line's
\* new single-owner value less its old one, and the delta is zero whenever
\* the piece added turns a line held by one owner into a mixed line.
C31_DeadLineAddsNothing ==
    EveryTransition(TRUE)

\* C31 amended: for every line transition the score delta is the line's
\* new single-owner value less its old one; whenever the piece added turns
\* a line held by one owner into a mixed line, the new value is zero and
\* the delta is minus the old value.
C31_DeltaIsValueChange ==
    EveryTransition(FALSE)

\* a move of the human has put a piece into a line that held squares of
\* the computer only
C31_Witness ==
    /\ op = "takeHumanTurn"
    /\ ret # mconst_colNil
    /\ \E iQuad \in Quads :
          /\ old.m_rgQuad[iQuad] \in {10, 18, 24}
          /\ board.m_rgQuad[iQuad] \in {12, 20, 26}

\* the list of each square in the table: its entries before the 0
RowEntries ==
    [p \in Squares |-> QuadsUpToStop(mconst_mpPosQuads[p + 1], 1)]

\* the squares whose list holds line iQuad, for each line
CellsOf ==
    [iQuad \in Quads |->
        { p \in Squares :
            \E k \in 1..Len(RowEntries[p]) : RowEntries[p][k] = iQuad }]

\* the table against the geometry: the lines by kind, the four squares of
\* each line, the list of each square
TableIsGeometry ==
    /\ \A iQuad \in Quads :
          /\ Cardinality(CellsOf[iQuad]) = 4
          /\ \E line \in GeoLines :
                CellsOf[iQuad] = { line[k] : k \in 1..4 }
          /\ LET span == CHOOSE d \in 0..mconst_posLim :
                            \E p \in CellsOf[iQuad] :
                               /\ p + d \in CellsOf[iQuad]
                               /\ \A r \in CellsOf[iQuad] : p <= r /\ r <= p + d
             IN  span = IF iQuad <= 24 THEN 3
                        ELSE IF iQuad <= 45 THEN 21
                        ELSE IF iQuad <= 57 THEN 24 ELSE 18
    /\ Cardinality({ CellsOf[iQuad] : iQuad \in Quads }) = mconst_quadLim - 1
    /\ Cardinality(GeoLines) = mconst_quadLim - 1
    /\ \A p \in Squares :
          /\ Len(RowEntries[p]) \in 3..13
          /\ QuadsOfSquare(p) = RowEntries[p]
          /\ Cardinality({ RowEntries[p][k] : k \in 1..Len(RowEntries[p]) })
                = Len(RowEntries[p])
          /\ { RowEntries[p][k] : k \in 1..Len(RowEntries[p]) }
                = { iQuad \in Quads : p \in CellsOf[iQuad] }
          /\ Len(RowEntries[p])
                = Cardinality({ line \in GeoLines : \E k \in 1..4 : line[k] = p })

\* C32: the table of the lines of each square is the geometry of the board.
\* The lines 1..69 are 24 alignments in rows, 21 in columns, 12 and 12 on
\* the two diagonals, in this order; each line is in the lists of exactly
\* four squares, four adjacent squares of one alignment, and no two lines
\* have the same squares; the list of a square holds every line through
\* the square once and has 3 to 13 entries, so that the three unrolled
\* reads of move and remove never take the 0 that ends it.  On the board
\* of the game the lines with a code other than 0 are the lines in the list
\* of a square that is taken.
C32_TableIsGeometry ==
    /\ TableIsGeometry
    /\ \A iQuad \in Quads :
          board.m_rgQuad[iQuad] # 0
             <=> \E p \in CellsOf[iQuad] : board.m_rgPosition[p] # 0

\* a move has landed on the corner square 35, whose list has three lines,
\* and the codes of three lines have changed
C32_Witness ==
    /\ op = "takeHumanTurn"
    /\ ret = 0
    /\ old.m_rgPosition[35] = 0
    /\ board.m_rgPosition[35] # 0
    /\ Len(RowEntries[35]) = 3
    /\ Cardinality({ iQuad \in Quads :
                       board.m_rgQuad[iQuad] # old.m_rgQuad[iQuad] }) = 3

\* C33: takeBackMove is a stack pop.  With a move played it takes off the
\* piece placed last and returns its column, and leaves the position that
\* the moves still standing give from the empty board; after as many
\* take-backs as moves this is the empty position: no cell taken, every
\* quad code 0, score 0, move count 0, the first mover to move.  With no
\* move played it returns NONE and changes nothing.
C33_TakeBackIsStackPop ==
    op = "takeBackMove" =>
        IF old.m_cMoves > 0
        THEN /\ ret = found.last
             /\ board.m_rgPosition =
                   [old.m_rgPosition EXCEPT ![LowestEmpty(old, ret) + 7] = 0]
             /\ Core(board) =
                   Core(Replay([EmptyBoard EXCEPT
                                   !.m_fIsComputerTurn = found.first],
                               found.line, 1))
             /\ board.m_cMoves = Len(found.line)
             /\ found.line = << >> =>
                   /\ \A p \in Squares : board.m_rgPosition[p] = 0
                   /\ \A iQuad \in Quads : board.m_rgQuad[iQuad] = 0
                   /\ board.m_sumStatEval = 0
                   /\ board.m_cMoves = 0
                   /\ board.m_fIsComputerTurn = found.first
        ELSE /\ ret = mconst_colNil
             /\ board = old

\* three moves in two columns have been taken back one after the other,
\* down to the empty board
C33_Witness ==
    /\ op = "takeBackMove"
    /\ found.made = 3
    /\ nOps = 6
    /\ old.m_cMoves = 1
    /\ board.m_cMoves = 0
    /\ old.m_rgHistory[1] # old.m_rgHistory[0]

\* C34: every call of calcMaxMove / calcMinMove ends, for every difficulty
\* 0..9 and every position that is not terminal: the depth argument is at
\* least 1 whenever an evaluator is entered, it is one less with each call
\* of the chain, and the chain ends in the leaf ply (the depth decremented
\* to 0) or with a move that ends the game, before the depth is negative.
C34_SearchTerminates ==
    /\ [](found.fn = "call" =>
             /\ found.depth >= 1
             /\ found.depth = level.m_depthMax - (found.plies - 1))
    /\ [][(found.fn = "call" /\ found'.fn = "call")
             => found'.depth < found.depth]_vars
    /\ [](found.fn = "leaf" => found.depth - 1 = 0)
    /\ [](found.fn = "value" => found.depth >= 1)
    /\ <>(found.fn \in {"leaf", "value"})

\* at difficulty 9 the chain has gone down all 17 evaluators to the leaf ply
C34_Witness ==
    /\ level.m_depthMax = 17
    /\ found.fn = "leaf"
    /\ found.plies = 17
    /\ arg = 1

\* C35: when a worker starts an evaluation, its replica (cells, quad codes,
\* score, move count, side to move) is the position the last completed move
\* of the game left on the board, and the moves a worker replays are moves
\* of the game, never moves the main thread's search has on the board.
C35_WorkerStartsFromPlayedPosition ==
    [][\A i \in Cols :
          (work[i].pc = "ready" /\ twork'[i] # twork[i]) =>
             /\ main \notin {"made", "tried"}
             /\ work'[i].pc = "locked" =>
                   Core(t_mainReplay(twork[i],
                                     board.m_cMoves - twork[i].m_cMoves))
                      = Core(IF main = "idle" THEN board ELSE old)]_vars

\* C36: the assertion of t_main never fails: whenever a worker leaves its
\* wait loop the board is 1 or 2 moves ahead of its replica.
C36_AssertionHolds ==
    main # "aborted"

\* C37: the board changes only while every worker is blocked in
\* pthread_cond_wait, and no worker reads the board while a move of the
\* main thread's search is on it.
C37_BoardChangesBetweenRounds ==
    [][/\ board' # board => \A i \in Cols : work[i].pc = "asleep"
       /\ main \in {"made", "tried"} =>
             \A i \in Cols :
                work[i].pc = "ready" =>
                   (work'[i] = work[i] /\ twork'[i] = twork[i])]_vars

\* C38: threads_finished is within 0..7, a worker counts at most once in a
\* round, and the counter is 0 whenever the main thread is not inside
\* t_calcMaxMove / t_calcMinMove.
C38_CounterWithinRound ==
    /\ result.threads_finished \in 0..MAGIC_LIMIT_COLS
    /\ \A i \in Cols : result.fresh[i] + result.stale[i] <= 1
    /\ main = "idle" => result.threads_finished = 0

\* C39 as stated: candidates with the same score after one trial move
\* stand, after descendMoves / ascendMoves has dropped the full columns and
\* sorted the list, in the order they have in the list {3, 2, 4, 1, 5, 0, 6}
\* (descendMoves with the computer to move, ascendMoves with the human to
\* move, as the search calls them).
C39_TiesKeepListOrder ==
    (/\ op \in {"descendMoves", "ascendMoves"}
     /\ (op = "descendMoves") = Truthy(old.m_fIsComputerTurn)) =>
        \A i, j \in 0..(found.movesLim - 1) :
           (/\ i < j
            /\ TrialScore(old, found.moves[i]) = TrialScore(old, found.moves[j]))
              => \E k, m \in 0..(MAGIC_LIMIT_COLS - 1) :
                    /\ k < m
                    /\ rgMovesInit[k] = found.moves[i]
                    /\ rgMovesInit[m] = found.moves[j]

\* C39: when no column is full, the candidate at the head of the list after
\* descendMoves / ascendMoves, the one searched first, is the earliest of
\* the list {3, 2, 4, 1, 5, 0, 6} among the candidates of the extreme score.
C39_HeadIsEarliestOfExtreme ==
    (op \in {"descendMoves", "ascendMoves"} /\ OpenCols(old) = Cols) =>
        \A k, m \in 0..(MAGIC_LIMIT_COLS - 1) :
           (/\ rgMovesInit[m] = found.moves[0]
            /\ TrialScore(old, rgMovesInit[k])
                  = TrialScore(old, found.moves[0]))
              => m <= k

\* no column is full, two candidates share the extreme score, and further
\* down the list two candidates of the same score have changed places
C39_Witness ==
    /\ op \in {"descendMoves", "ascendMoves"}
    /\ OpenCols(old) = Cols
    /\ \E c \in Cols \ {found.moves[0]} :
          TrialScore(old, c) = TrialScore(old, found.moves[0])
    /\ ~C39_TiesKeepListOrder

\* C40: in a game driven as in main the pieces alternate between the owners:
\* the numbers of human and computer pieces differ by at most one (and add
\* up to the move count), the side to move is the first mover after an even
\* number of moves and the other after an odd number, and what takeHumanTurn
\* places is one human piece (-1), what takeComputerTurn places one computer
\* piece (+1).
C40_PiecesAlternate ==
    /\ \E h, c \in 0..mconst_posLim :
          /\ h = Cardinality({ p \in Squares : board.m_rgPosition[p] = -1 })
          /\ c = Cardinality({ p \in Squares : board.m_rgPosition[p] = 1 })
          /\ h + c = board.m_cMoves
          /\ h - c \in {-1, 0, 1}
    /\ board.m_fIsComputerTurn = (found.first + board.m_cMoves) % 2
    /\ (op \in {"takeHumanTurn", "takeComputerTurn"} /\ ret # mconst_colNil) =>
          \E p \in Squares :
             /\ old.m_rgPosition[p] = 0
             /\ board.m_rgPosition[p]
                   = IF op = "takeHumanTurn" THEN -1 ELSE 1
             /\ \A p2 \in Squares \ {p} :
                   board.m_rgPosition[p2] = old.m_rgPosition[p2]
    /\ (op = "takeHumanTurn" /\ ret = mconst_colNil) => board = old

\* in a game the human began, the seventh move is the human's fourth piece
\* and ends the game
C40_Witness ==
    /\ found.first = 0
    /\ nOps = 7
    /\ board.m_cMoves = 7
    /\ op = "takeHumanTurn"
    /\ isGameOver(board)
    /\ Cardinality({ p \in Squares : board.m_rgPosition[p] = -1 }) = 4
====
